---- MODULE Spec2Model ----
(***************************************************************************)
(* A model of the dnsrouter radix tree (tree.go): registration (addRoute,  *)
(* insertChild, incrementChildPrio, addHandler) and lookup (getValue,      *)
(* revertParams, previous), and of the router on top of it (router.go):    *)
(* indexable names, Router.handle and Router.Lookup, and the canonical     *)
(* order of the NSEC and NSEC3 names of one class.                         *)
(* Names are sequences of one-character strings so that the byte-level     *)
(* slicing of the Go code can be followed literally.  Nodes live in an     *)
(* arena (a sequence of node records); a *node is an index into the arena, *)
(* 0 is the nil pointer and 1 is the root the router owns.                 *)
(***************************************************************************)
EXTENDS Integers, Sequences, FiniteSets, TLC

VARIABLES
    nodes,      \* the arena of tree nodes
    regs,       \* the registrations that succeeded, in any order
    panicked,   \* the error of the registration that panicked, "" if none
    v,          \* the Value the single caller last got, NoValue if dropped
    lk,         \* the lookup each worker goroutine has in flight
    nsecNames,  \* the canonicalOrder of the names handled with an NSEC
    nsec3Names  \* the canonicalOrder of the names handled with an NSEC3

vars == <<nodes, regs, panicked, v, lk, nsecNames, nsec3Names>>

\* ------------------------------------------------------------------------
\* Go slicing helpers (0-based, half-open)

\* s[i] of Go
At(s, i) == s[i + 1]

\* s[a:b] of Go
Slice(s, a, b) == SubSeq(s, a + 1, b)

\* s[a:] of Go
From(s, a) == SubSeq(s, a + 1, Len(s))

\* strings.HasPrefix
HasPrefix(s, p) == Len(s) >= Len(p) /\ SubSeq(s, 1, Len(p)) = p

\* strings.HasSuffix
HasSuffix(s, p) == Len(s) >= Len(p) /\ SubSeq(s, Len(s) - Len(p) + 1, Len(s)) = p

min(a, b) == IF a <= b THEN a ELSE b

\* ------------------------------------------------------------------------
\* Program constants

\* the nil *node
Nil == 0

\* the receiver of Router's addRoute/getValue calls: the tree's root node
Root == 1

\* dns.TypeNS, dns.TypeSOA, dns.TypeDNAME, dns.TypeA
TypeNS == 2

TypeSOA == 6

TypeDNAME == 39

TypeA == 1

\* width of numParams / maxParams (uint8)
Uint8 == 256

countParams(name) ==
    LET n == Cardinality({i \in 1..Len(name) : name[i] \in {":", "*"}})
    IN IF n >= 255 THEN 255 ELSE n

\* a nil *nodeData
NoData == [has |-> FALSE, handler |-> <<>>, rrType |-> {}]

\* new(nodeData)
NewData == [has |-> TRUE, handler |-> <<>>, rrType |-> {}]

\* &node{} with the given fields, all others zero
NewNode(nType, maxParams, priority, parent) ==
    [name |-> <<>>, wildChild |-> "none", nType |-> nType, maxParams |-> maxParams,
     indices |-> <<>>, children |-> <<>>, parent |-> parent, data |-> NoData,
     priority |-> priority]

\* classHandler.Less on two entries
Less(a, b) ==
    \/ a.Qtype < b.Qtype
    \/ a.Qtype = b.Qtype /\ a.TypeCovered < b.TypeCovered

\* sort.Sort on a sorted table with one entry appended (insertion sort, which
\* is what sort.Sort runs on fewer than 12 elements): the new last entry moves
\* left while it is Less than its left neighbour.
RECURSIVE SortLast(_, _)
SortLast(l, j) ==
    IF j > 1 /\ Less(l[j], l[j - 1])
    THEN SortLast([l EXCEPT ![j - 1] = l[j], ![j] = l[j - 1]], j - 1)
    ELSE l

\* whether the handler originates in its zone: an Answer handler whose header
\* name does not end with Origin does not
Originated(h) ==
    IF h.Handler.isAnswer THEN HasSuffix(h.Handler.hdrName, h.Origin) ELSE TRUE

\* addHandler that starts the table over with the new entry
addHandlerReplaces(d, h) ==
    LET originated == Originated(h)
        fl == IF h.Qtype = TypeNS /\ originated THEN {"ns"}
              ELSE IF h.Qtype = TypeSOA /\ originated THEN {"soa"}
              ELSE IF h.Qtype = TypeDNAME THEN {"dname"}
              ELSE {}
    IN [has |-> TRUE, handler |-> <<h>>, rrType |-> d.rrType \cup fl]

\* nodeData.addHandler
addHandler(d, h) ==
    LET l1 == Append(d.handler, h)
        l2 == IF Len(l1) > 1 THEN SortLast(l1, Len(l1)) ELSE l1
        originated == Originated(h)
        fl == IF h.Qtype = TypeNS /\ originated THEN {"ns"}
              ELSE IF h.Qtype = TypeSOA /\ originated THEN {"soa"}
              ELSE IF h.Qtype = TypeDNAME THEN {"dname"}
              ELSE {}
    IN [has |-> TRUE, handler |-> l2, rrType |-> d.rrType \cup fl]

\* rrType & rrZone > 0
IsZoneData(d) == d.rrType \cap {"ns", "soa"} # {}

\* rrType & rrDname > 0
IsDnameData(d) == "dname" \in d.rrType

\* ------------------------------------------------------------------------
\* incrementChildPrio: returns the arena and the new position

\* the priority comparison of the move-to-front loop reads n.children, the
\* swaps go through children (n.children[1:] when there is a wild child)
RECURSIVE PrioLoop(_, _, _, _, _)
PrioLoop(T, n, off, newPos, prio) ==
    IF newPos > 0 /\ T[T[n].children[newPos]].priority < prio
    THEN LET a == T[n].children[off + newPos]
             b == T[n].children[off + newPos + 1]
         IN PrioLoop([T EXCEPT ![n].children[off + newPos] = b,
                               ![n].children[off + newPos + 1] = a],
                     n, off, newPos - 1, prio)
    ELSE [nodes |-> T, pos |-> newPos]

incrementChildPrio(T0, n, pos) ==
    LET off == IF T0[n].wildChild # "none" THEN 1 ELSE 0
        c == T0[n].children[off + pos + 1]
        T1 == [T0 EXCEPT ![c].priority = @ + 1]
        prio == T1[c].priority
        r == PrioLoop(T1, n, off, pos, prio)
        newPos == r.pos
        ind == T0[n].indices
        T2 == IF newPos # pos
              THEN [r.nodes EXCEPT ![n].indices =
                        Slice(ind, 0, newPos) \o Slice(ind, pos, pos + 1)
                        \o Slice(ind, newPos, pos) \o From(ind, pos + 1)]
              ELSE r.nodes
    IN [nodes |-> T2, pos |-> (IF off = 1 THEN newPos + 1 ELSE newPos)]

\* ------------------------------------------------------------------------
\* addRoute

NoErr == "ok"

\* length of the longest common prefix of name and the node's name
RECURSIVE commonPrefix(_, _, _)
commonPrefix(a, b, i) ==
    IF i < min(Len(a), Len(b)) /\ At(a, i) = At(b, i)
    THEN commonPrefix(a, b, i + 1)
    ELSE i

MaxOf(S) == IF S = {} THEN 0 ELSE CHOOSE m \in S : \A x \in S : x <= m

\* child.children[i].parent = child, for every inherited child
RECURSIVE adopt(_, _, _, _)
adopt(T, kids, k, id) ==
    IF k > Len(kids) THEN T
    ELSE adopt([T EXCEPT ![kids[k]].parent = id], kids, k + 1, id)

\* splitEdge without "n.data = nil": the fork keeps the payload
splitEdgeKeepsData(T, n, i, name) ==
    LET id == Len(T) + 1
        old == T[n]
        kids == {old.children[k] : k \in 1..Len(old.children)}
        child == [name |-> From(old.name, i), wildChild |-> old.wildChild,
                  nType |-> "static", maxParams |-> MaxOf({T[k].maxParams : k \in kids}),
                  indices |-> old.indices, children |-> old.children, parent |-> n,
                  data |-> old.data, priority |-> old.priority - 1]
        T1 == adopt(T, old.children, 1, id)
        T2 == [T1 EXCEPT ![n].children = <<id>>,
                         ![n].indices = <<At(old.name, i)>>,
                         ![n].name = Slice(name, 0, i),
                         ![n].wildChild = "none"]
    IN Append(T2, child)

\* "Split edge": the node keeps name[:i] and gets one new child that inherits
\* the rest of the edge, the children, the indices, the wild child and the data
splitEdge(T, n, i, name) ==
    LET id == Len(T) + 1
        old == T[n]
        kids == {old.children[k] : k \in 1..Len(old.children)}
        child == [name |-> From(old.name, i), wildChild |-> old.wildChild,
                  nType |-> "static", maxParams |-> MaxOf({T[k].maxParams : k \in kids}),
                  indices |-> old.indices, children |-> old.children, parent |-> n,
                  data |-> old.data, priority |-> old.priority - 1]
        T1 == adopt(T, old.children, 1, id)
        T2 == [T1 EXCEPT ![n].children = <<id>>,
                         ![n].indices = <<At(old.name, i)>>,
                         ![n].name = Slice(name, 0, i),
                         ![n].data = NoData,
                         ![n].wildChild = "none"]
    IN Append(T2, child)

\* index of the first '.' in s at or after i, or Len(s) when there is none
RECURSIVE segEnd(_, _)
segEnd(s, i) == IF i < Len(s) /\ At(s, i) # "." THEN segEnd(s, i + 1) ELSE i

\* the tail of insertChild: "insert remaining name part and handler to the leaf"
insertLeaf(T, n, offset, name, handler) ==
    LET d == IF T[n].data.has THEN T[n].data ELSE NewData
    IN [nodes |-> [T EXCEPT ![n].name = From(name, offset),
                            ![n].data = addHandler(d, handler)],
        err |-> NoErr]

\* the loop of insertChild, one wildcard per iteration
RECURSIVE insertLoop(_, _, _, _, _, _, _, _)
insertLoop(T, n, offset, i, numParams, name, fullName, handler) ==
    LET max == Len(name) IN
    IF numParams = 0 THEN insertLeaf(T, n, offset, name, handler)
    ELSE IF i >= max THEN [nodes |-> T, err |-> "IndexOutOfRange"]
    ELSE IF At(name, i) \notin {":", "*"}
         THEN insertLoop(T, n, offset, i + 1, numParams, name, fullName, handler)
    ELSE
    LET c == At(name, i)
        end == segEnd(name, i + 1)
        id == Len(T) + 1
    IN
    IF \E k \in (i + 1)..(end - 1) : At(name, k) \in {":", "*"}
    THEN [nodes |-> T, err |-> "MultipleWildcardPerLabel"]
    ELSE IF c = "*" /\ end = max /\ HasSuffix(fullName, <<".", "*">>)
    THEN \* anonymous wildcard
         LET T1 == IF i > 0 THEN [T EXCEPT ![n].name = Slice(name, offset, i)] ELSE T
             off1 == IF i > 0 THEN i ELSE offset
             child == NewNode("anonymousCatchAll", numParams, 1, n)
             T2 == [T1 EXCEPT ![n].children = <<id>> \o @,
                              ![n].wildChild = "anonymous"]
         IN insertLeaf(Append(T2, child), id, off1, name, handler)
    ELSE IF Len(T[n].children) > 0
    THEN [nodes |-> T, err |-> "ChildConflict"]
    ELSE IF end - i < 2
    THEN [nodes |-> T, err |-> "EmptyWildcardName"]
    ELSE IF c = ":"
    THEN \* param
         LET T1 == IF i > 0 THEN [T EXCEPT ![n].name = Slice(name, offset, i)] ELSE T
             off1 == IF i > 0 THEN i ELSE offset
             child == NewNode("param", numParams, 1, n)
             T2 == Append([T1 EXCEPT ![n].children = <<id>>,
                                     ![n].wildChild = "named"], child)
             np == numParams - 1
         IN IF end < max
            THEN LET child2 == NewNode("static", np, 1, id)
                     T3 == Append([T2 EXCEPT ![id].name = Slice(name, off1, end),
                                             ![id].children = <<id + 1>>], child2)
                 IN insertLoop(T3, id + 1, end, i + 1, np, name, fullName, handler)
            ELSE insertLoop(T2, id, off1, i + 1, np, name, fullName, handler)
    ELSE \* catchAll
         IF end # max \/ numParams > 1
         THEN [nodes |-> T, err |-> "CatchAllNotAtEnd"]
         ELSE IF Len(T[n].name) > 0 /\ At(T[n].name, Len(T[n].name) - 1) = "."
         THEN [nodes |-> T, err |-> "CatchAllConflictsWithRoot"]
         ELSE IF i - 1 < 0
         THEN [nodes |-> T, err |-> "IndexOutOfRange"]
         ELSE IF At(name, i - 1) # "."
         THEN [nodes |-> T, err |-> "NoDotBeforeCatchAll"]
         ELSE LET j == i - 1
                  child1 == [NewNode("catchAll", 1, 1, n) EXCEPT
                                !.wildChild = "named", !.children = <<id + 1>>]
                  child2 == [NewNode("catchAll", 1, 1, id) EXCEPT
                                !.name = From(name, j),
                                !.data = addHandler(NewData, handler)]
                  T1 == [T EXCEPT ![n].name = Slice(name, offset, j),
                                  ![n].children = <<id>>,
                                  ![n].indices = <<At(name, j)>>]
              IN [nodes |-> Append(Append(T1, child1), child2), err |-> NoErr]

insertChild(T, n, numParams, name, fullName, handler) ==
    insertLoop(T, n, 0, 0, numParams, name, fullName, handler)

\* position (0-based) of the first index byte equal to c, or -1
IndexOf(ind, c) ==
    IF \E k \in 1..Len(ind) : ind[k] = c
    THEN (CHOOSE k \in 1..Len(ind) : ind[k] = c /\ \A j \in 1..(k - 1) : ind[j] # c) - 1
    ELSE -1

\* "Otherwise insert it": a new static child for a non-wildcard first byte,
\* then the handler goes to the anonymous child or through insertChild
insertHere(T, n, name, numParams, fullName, allowDup, handler) ==
    LET c == At(name, 0)
        id == Len(T) + 1
        isStatic == c # ":" /\ c # "*"
        T1 == IF isStatic
              THEN incrementChildPrio(
                       Append([T EXCEPT ![n].indices = Append(@, c),
                                        ![n].children = Append(@, id)],
                              NewNode("static", numParams, 0, n)),
                       n, Len(T[n].indices)).nodes
              ELSE T
        m == IF isStatic THEN id ELSE n
    IN IF T1[m].wildChild = "anonymous"
       THEN IF ~allowDup
            THEN [nodes |-> T1, err |-> "DuplicateRoute"]
            ELSE LET child == T1[m].children[1]
                 IN [nodes |-> [T1 EXCEPT ![child].data = addHandler(@, handler),
                                          ![child].priority = @ + 1],
                     err |-> NoErr]
       ELSE insertChild(T1, m, numParams, name, fullName, handler)

\* makeLeaf that attaches the handler before it finds the duplicate
makeLeafAttachesFirst(T, n, allowDup, handler) ==
    LET d == IF T[n].data.has THEN T[n].data ELSE NewData
    IN [nodes |-> [T EXCEPT ![n].data = addHandler(d, handler)],
        err |-> IF T[n].data.has /\ ~allowDup THEN "DuplicateRoute" ELSE NoErr]

\* "Make node a (in-name) leaf": the name ends at this node
makeLeaf(T, n, allowDup, handler) ==
    IF T[n].data.has /\ ~allowDup
    THEN [nodes |-> T, err |-> "DuplicateRoute"]
    ELSE LET d == IF T[n].data.has THEN T[n].data ELSE NewData
         IN [nodes |-> [T EXCEPT ![n].data = addHandler(d, handler)],
             err |-> NoErr]

\* the walk loop of addRoute (one iteration per recursion)
RECURSIVE walk(_, _, _, _, _, _, _)
walk(T0, n, name0, numParams, fullName, allowDup, handler) ==
    LET T1 == IF numParams > T0[n].maxParams
              THEN [T0 EXCEPT ![n].maxParams = numParams] ELSE T0
        i == commonPrefix(name0, T1[n].name, 0)
        T2 == IF i < Len(T1[n].name) THEN splitEdge(T1, n, i, name0) ELSE T1
    IN
    IF i < Len(name0)
    THEN LET name == From(name0, i) IN
         IF T2[n].wildChild = "named"
         THEN LET w == T2[n].children[1]
                  T3 == [T2 EXCEPT ![w].priority = @ + 1,
                                   ![w].maxParams = IF numParams > @ THEN numParams ELSE @]
                  np == (numParams - 1) % Uint8
                  wn == T3[w].name
              IN IF /\ Len(name) >= Len(wn)
                    /\ wn = Slice(name, 0, Len(wn))
                    /\ (Len(wn) >= Len(name) \/ At(name, Len(wn)) = ".")
                 THEN walk(T3, w, name, np, fullName, allowDup, handler)
                 ELSE [nodes |-> T3, err |-> "WildcardConflict"]
         ELSE LET c == At(name, 0)
                  k == IndexOf(T2[n].indices, c)
              IN IF T2[n].nType = "param" /\ c = "." /\ Len(T2[n].children) = 1
                 THEN LET ch == T2[n].children[1]
                      IN walk([T2 EXCEPT ![ch].priority = @ + 1], ch, name,
                              numParams, fullName, allowDup, handler)
                 ELSE IF k # -1
                 THEN LET r == incrementChildPrio(T2, n, k)
                      IN walk(r.nodes, r.nodes[n].children[r.pos + 1], name,
                              numParams, fullName, allowDup, handler)
                 ELSE insertHere(T2, n, name, numParams, fullName, allowDup, handler)
    ELSE makeLeaf(T2, n, allowDup, handler)

addRoute(T, name, allowDup, handler) ==
    LET T1 == [T EXCEPT ![Root].priority = @ + 1]
        numParams == countParams(name)
    IN IF Len(T1[Root].name) > 0 \/ Len(T1[Root].children) > 0
       THEN walk(T1, Root, name, numParams, name, allowDup, handler)
       ELSE LET r == insertChild(T1, Root, numParams, name, name, handler)
            IN IF r.err = NoErr
               THEN [r EXCEPT !.nodes[Root].nType = "root"]
               ELSE r

\* ------------------------------------------------------------------------
\* getValue

\* dns.CountLabel: the number of labels of s; "." has none, and a dot in the
\* last position ends the last label instead of starting a new one
CountLabel(s) ==
    IF s = <<".">> THEN 0
    ELSE 1 + Cardinality({i \in 1..(Len(s) - 1) : s[i] = "."})

\* the zero Param
ZeroParam == [Key |-> <<>>, Value |-> <<>>]

\* a nil Params slice; a slice is a backing array (index into arrs), the
\* offset of its first element in the array and a length
NilParams == [a |-> 0, off |-> 0, len |-> 0]

\* the zero milestone
NoMilestone == [node |-> Nil, params |-> NilParams, name |-> <<>>]

\* the locals of getValue at its entry; zcap = -1 stands for v.zones == nil
EnterGetValue(name) ==
    [n |-> Root, name |-> name, query |-> name, end |-> 0,
     p |-> NilParams, arrs |-> <<>>,
     fallback |-> FALSE, fallbackNode |-> Nil, fallbackName |-> <<>>,
     fallbackParams |-> NilParams,
     node |-> Nil, cut |-> FALSE, zones |-> <<>>, zcap |-> -1,
     nearest |-> [node |-> Root, params |-> NilParams, name |-> name],
     done |-> FALSE, panic |-> "", visited |-> <<>>, nfb |-> 0]

Panic(L, msg) == [L EXCEPT !.panic = msg, !.done = TRUE]

\* v.zones = v.zones[:i+1] (made on first use with room for CountLabel(name)+1
\* milestones) and the write of the new milestone
pushZone(L, n, capName, zname) ==
    LET cap == IF L.zcap = -1 THEN CountLabel(capName) + 1 ELSE L.zcap
    IN IF Len(L.zones) + 1 > cap
       THEN Panic([L EXCEPT !.zcap = cap], "zones: slice bounds out of range")
       ELSE [L EXCEPT !.zcap = cap,
                      !.zones = Append(@, [node |-> n, params |-> L.p, name |-> zname])]

\* make(Params, 0, cap): a backing array of cap zero Params
RECURSIVE makeParams(_)
makeParams(cap) == IF cap = 0 THEN <<>> ELSE Append(makeParams(cap - 1), ZeroParam)

\* "save param value": p is made on first use with the given capacity, grown
\* by one within its capacity, and the new slot written; an anonymous capture
\* writes only the Value
saveParam(L, cap, setKey, key, value) ==
    LET alloc == L.p.a = 0
        arrs1 == IF alloc
                 THEN Append(L.arrs, [cap |-> cap, elems |-> makeParams(cap)])
                 ELSE L.arrs
        a == IF alloc THEN Len(arrs1) ELSE L.p.a
        off == IF alloc THEN 0 ELSE L.p.off
        i == L.p.len
    IN IF off + i + 1 > arrs1[a].cap
       THEN Panic(L, "params: slice bounds out of range")
       ELSE [L EXCEPT !.arrs = [arrs1 EXCEPT ![a].elems[off + i + 1] =
                                   [Key |-> IF setKey THEN key ELSE @.Key,
                                    Value |-> value]],
                      !.p = [a |-> a, off |-> off, len |-> i + 1]]

\* n, name, p, fallback = fallbackNode, fallbackName, fallbackParams, true
takeFallback(L) ==
    [L EXCEPT !.n = L.fallbackNode, !.name = L.fallbackName,
              !.p = L.fallbackParams, !.fallback = TRUE, !.nfb = @ + 1]

Return(L) == [L EXCEPT !.done = TRUE]

\* "handle wildcard child": n = n.children[0] and the switch on its type
wildStep(T, L0, parent, name) ==
    IF Len(T[parent].children) = 0 THEN Panic(L0, "index out of range")
    ELSE
    LET n == T[parent].children[1]
        L == [L0 EXCEPT !.n = n, !.name = name]
        nd == T[n]
    IN
    IF nd.nType = "param"
    THEN LET end == segEnd(name, 0)
             L1 == IF Len(nd.name) < 1 THEN Panic(L, "slice bounds out of range")
                   ELSE saveParam([L EXCEPT !.end = end], nd.maxParams, TRUE,
                                  From(nd.name, 1), Slice(name, 0, end))
         IN IF L1.done THEN L1
            ELSE IF end < Len(name)
            THEN LET L2 == IF nd.data.has /\ IsZoneData(nd.data)
                           THEN pushZone(L1, n, name, name) ELSE L1
                 IN IF L2.done THEN L2
                    ELSE IF nd.data.has /\ IsDnameData(nd.data)
                    THEN Return([L2 EXCEPT !.node = n])
                    ELSE IF Len(nd.children) > 0
                    THEN [L2 EXCEPT !.name = From(name, end),
                                    !.nearest = [node |-> n, params |-> L2.p,
                                                 name |-> From(name, end)],
                                    !.n = nd.children[1]]
                    ELSE IF L2.fallbackNode # Nil
                    THEN takeFallback(L2)
                    ELSE Return(L2)
            ELSE Return(IF nd.data.has THEN [L1 EXCEPT !.node = n] ELSE L1)
    ELSE IF nd.nType = "catchAll"
    THEN LET L1 == IF Len(nd.name) < 2 THEN Panic(L, "slice bounds out of range")
                   ELSE saveParam(L, nd.maxParams, TRUE, From(nd.name, 2), name)
         IN IF L1.done THEN L1
            ELSE Return(IF nd.data.has THEN [L1 EXCEPT !.node = n] ELSE L1)
    ELSE IF nd.nType = "anonymousCatchAll"
    THEN LET L1 == saveParam(L, nd.maxParams + 1, FALSE, <<>>, name)
         IN IF L1.done THEN L1
            ELSE Return(IF nd.data.has THEN [L1 EXCEPT !.node = n] ELSE L1)
    ELSE Panic(L, "invalid node type")

\* the fallback noted only at the first anonymous wildcard met
noteFallbackOnce(T, L, n, name) ==
    IF T[n].wildChild = "anonymous" /\ L.fallbackNode = Nil
    THEN [L EXCEPT !.fallbackNode = n, !.fallbackName = name, !.fallbackParams = L.p]
    ELSE L

\* "fallbackNode, fallbackName, fallbackParams = n, name, p" at every node
\* with an anonymous wildcard that the walk goes through
noteFallback(T, L, n, name) ==
    IF T[n].wildChild = "anonymous"
    THEN [L EXCEPT !.fallbackNode = n, !.fallbackName = name, !.fallbackParams = L.p]
    ELSE L

\* one iteration of the walk loop of getValue
walkStep(T, La) ==
    LET n == La.n
        nd == T[n]
        name0 == La.name
        L0 == [La EXCEPT !.visited = Append(@, n)]
    IN
    IF Len(name0) > Len(nd.name) /\ Slice(name0, 0, Len(nd.name)) = nd.name
    THEN LET L1 == noteFallback(T, L0, n, name0)
             name == From(name0, Len(nd.name))
             L2 == [L1 EXCEPT !.name = name,
                              !.nearest = IF ~L1.fallback
                                          THEN [node |-> n, params |-> L1.p, name |-> name]
                                          ELSE @]
             dot == nd.data.has /\ HasPrefix(name, <<".">>)
             L3 == IF dot /\ IsZoneData(nd.data) THEN pushZone(L2, n, name, name) ELSE L2
         IN IF L3.done THEN L3
            ELSE IF dot /\ IsDnameData(nd.data)
            THEN Return([L3 EXCEPT !.node = n, !.cut = TRUE])
            ELSE IF nd.wildChild # "named" /\ ~L3.fallback
            THEN LET k == IndexOf(nd.indices, At(name, 0))
                 IN IF k # -1
                    THEN [L3 EXCEPT !.n = IF nd.wildChild # "none"
                                          THEN nd.children[k + 2]
                                          ELSE nd.children[k + 1]]
                    ELSE IF L3.fallbackNode # Nil /\ ~L3.fallback
                    THEN takeFallback(L3)
                    ELSE Return(L3)
            ELSE wildStep(T, L3, n, name)
    ELSE IF name0 = nd.name
    THEN Return(IF nd.data.has THEN [L0 EXCEPT !.node = n] ELSE L0)
    ELSE IF L0.fallback
    THEN IF nd.name = <<"*">>
         THEN LET L1 == saveParam(L0, nd.maxParams, FALSE, <<>>, name0)
              IN IF L1.done THEN L1
                 ELSE Return(IF nd.data.has THEN [L1 EXCEPT !.node = n] ELSE L1)
         ELSE Panic(L0, "failed fallback")
    ELSE IF L0.fallbackNode # Nil
    THEN takeFallback(L0)
    ELSE Return(L0)

\* the deferred function of getValue: v.params = p, the matched node's own
\* zone milestone, and the cut flag of a lookup that matched no node
deferred(T, L) ==
    LET L1 == IF L.node # Nil /\ IsZoneData(T[L.node].data)
              THEN pushZone(L, L.n, L.name, <<>>) ELSE L
        nd == T[L.n]
        l == Len(L.name)
    IN IF L1.panic # "" THEN L1
       ELSE IF L.node = Nil
       THEN IF nd.nType \in {"static", "root"}
            THEN [L1 EXCEPT !.cut = /\ l < Len(nd.name)
                                    /\ At(nd.name, l) = "."
                                    /\ Slice(nd.name, 0, l) = L.name]
            ELSE IF nd.nType = "param"
            THEN [L1 EXCEPT !.cut = (L.end = Len(L.name))]
            ELSE L1
       ELSE L1

\* the walk loop run to its return
RECURSIVE runWalk(_, _)
runWalk(T, L) == IF L.done THEN L ELSE runWalk(T, walkStep(T, L))

\* the contents of a Params slice
ParamsOf(L, sl) ==
    IF sl.a = 0 THEN <<>> ELSE SubSeq(L.arrs[sl.a].elems, sl.off + 1, sl.off + sl.len)

\* the value getValue returns (panic # "" when it does not return), with the
\* slices resolved to their contents at the time of the return
valueOf(L) ==
    [query |-> L.query, panic |-> L.panic, node |-> L.node,
     params |-> ParamsOf(L, L.p), cut |-> L.cut,
     zones |-> [i \in 1..Len(L.zones) |->
                   [node |-> L.zones[i].node, name |-> L.zones[i].name,
                    params |-> ParamsOf(L, L.zones[i].params)]],
     nearest |-> [node |-> L.nearest.node, name |-> L.nearest.name,
                  params |-> ParamsOf(L, L.nearest.params)],
     last |-> L.n, rest |-> L.name, visited |-> L.visited, nfb |-> L.nfb]

getValue(T, name) ==
    LET L == runWalk(T, EnterGetValue(name))
    IN valueOf(IF L.panic # "" THEN L ELSE deferred(T, L))

\* ------------------------------------------------------------------------
\* bytes

\* the printable ASCII characters in byte order, from ' ' (32) to '~' (126);
\* the double quote, the backslash and the backtick are spelled out
Printable ==
    <<" ", "!", "quote", "#", "$", "%", "&", "'", "(", ")", "*", "+", ",", "-", ".", "/",
      "0", "1", "2", "3", "4", "5", "6", "7", "8", "9", ":", ";", "<", "=", ">", "?",
      "@", "A", "B", "C", "D", "E", "F", "G", "H", "I", "J", "K", "L", "M", "N", "O",
      "P", "Q", "R", "S", "T", "U", "V", "W", "X", "Y", "Z", "[", "backslash", "]", "^", "_",
      "backtick", "a", "b", "c", "d", "e", "f", "g", "h", "i", "j", "k", "l", "m", "n", "o",
      "p", "q", "r", "s", "t", "u", "v", "w", "x", "y", "z", "{", "|", "}", "~">>

\* the byte of a character of a Go string
Ord(c) == 31 + CHOOSE k \in 1..Len(Printable) : Printable[k] = c

\* the character of a byte
Chr(b) == Printable[b - 31]

\* a < b on Go strings: bytewise lexicographic
RECURSIVE StrLess(_, _)
StrLess(a, b) ==
    IF b = <<>> THEN FALSE
    ELSE IF a = <<>> THEN TRUE
    ELSE IF Head(a) = Head(b) THEN StrLess(Tail(a), Tail(b))
    ELSE Ord(Head(a)) < Ord(Head(b))

\* ------------------------------------------------------------------------
\* indexable names

\* reveseChars: the bytes of b in reverse order
RECURSIVE reveseChars(_)
reveseChars(b) == IF b = <<>> THEN <<>> ELSE Append(reveseChars(Tail(b)), Head(b))

\* the scan of reverseLabels: every maximal run of bytes other than '.' is
\* reversed in place
RECURSIVE labelsLoop(_, _, _)
labelsLoop(b, i, begin0) ==
    IF i >= Len(b) THEN b
    ELSE LET begin == IF begin0 = -1 /\ At(b, i) # "." THEN i ELSE begin0
         IN IF begin # -1 /\ (i + 1 = Len(b) \/ At(b, i + 1) = ".")
            THEN labelsLoop(Slice(b, 0, begin) \o reveseChars(Slice(b, begin, i + 1))
                              \o From(b, i + 1), i + 1, -1)
            ELSE labelsLoop(b, i + 1, begin)

\* reverseLabels: the labels keep their bytes and swap their order
reverseLabels(b) == reveseChars(labelsLoop(b, 0, -1))

\* c += 32 for 'A'..'Z'
toLower(c) == IF Ord(c) >= Ord("A") /\ Ord(c) <= Ord("Z") THEN Chr(Ord(c) + 32) ELSE c

\* lowercase every byte (built element by element)
RECURSIVE lowerAll(_)
lowerAll(s) == IF s = <<>> THEN <<>> ELSE <<toLower(Head(s))>> \o lowerAll(Tail(s))

\* indexable: lowercase and reverse the labels of a name of more than one byte
indexable(s) == IF Len(s) <= 1 THEN s ELSE reverseLabels(lowerAll(s))

\* isIndexable
isIndexable(s) == s # <<>> /\ Head(s) = "."

\* dns.Fqdn: the name with a closing dot
Fqdn(s) == IF s # <<>> /\ s[Len(s)] = "." THEN s ELSE Append(s, ".")

\* newIndexableName that converts whatever it is given
newIndexableNameAlways(name) == indexable(Fqdn(name))

\* newIndexableName
newIndexableName(name) == IF ~isIndexable(name) THEN indexable(Fqdn(name)) ELSE name

\* ------------------------------------------------------------------------
\* canonical order

\* strings.Count(s, ".")
CountDots(s) == Cardinality({k \in 1..Len(s) : s[k] = "."})

\* strings.Index(s, "."): the index of the first '.', -1 without one
IndexDot(s) == IF segEnd(s, 0) = Len(s) THEN -1 ELSE segEnd(s, 0)

\* len(l) > 1 && l[0] == c
Marked(l, c) == Len(l) > 1 /\ At(l, 0) = c

\* the for loop of canonicalOrderLess: one label of each name per iteration;
\* the result is decided inside the loop (done) or left to the rest of the
\* names after it
RECURSIVE lessLoop(_, _, _, _)
lessLoop(x, y, i, n) ==
    IF i >= n THEN [done |-> FALSE, x |-> x, y |-> y]
    ELSE LET xDot == IndexDot(x)
             yDot == IndexDot(y)
             xI == IF xDot = -1 THEN x ELSE Slice(x, 0, xDot)
             yI == IF yDot = -1 THEN y ELSE Slice(y, 0, yDot)
             x1 == IF xDot = -1 THEN x ELSE From(x, xDot + 1)
             y1 == IF yDot = -1 THEN y ELSE From(y, yDot + 1)
         IN IF xI # yI
            THEN IF Marked(xI, "*") THEN [done |-> TRUE, less |-> FALSE]
                 ELSE IF Marked(yI, "*") THEN [done |-> TRUE, less |-> TRUE]
                 ELSE IF Marked(xI, ":") /\ Marked(yI, ":") THEN lessLoop(x1, y1, i + 1, n)
                 ELSE IF Marked(xI, ":") THEN [done |-> TRUE, less |-> FALSE]
                 ELSE IF Marked(yI, ":") THEN [done |-> TRUE, less |-> TRUE]
                 ELSE [done |-> TRUE, less |-> StrLess(xI, yI)]
            ELSE lessLoop(x1, y1, i + 1, n)

\* canonicalOrderLess
canonicalOrderLess(x0, y0) ==
    LET nX == CountDots(x0)
        nY == CountDots(y0)
        r == lessLoop(x0, y0, 0, min(nX, nY))
    IN IF r.done THEN r.less
       ELSE LET x == r.x
                y == r.y
            IN IF x # y /\ Marked(x, "*") THEN FALSE
               ELSE IF x # y /\ Marked(y, "*") THEN TRUE
               ELSE IF x # y /\ Marked(x, ":") /\ Marked(y, ":") THEN nX < nY
               ELSE IF x # y /\ Marked(x, ":") THEN FALSE
               ELSE IF x # y /\ Marked(y, ":") THEN TRUE
               ELSE StrLess(x, y)

\* sort.Sort on a canonicalOrder of fewer than seven names is an insertion
\* sort: for i := 1; i < n; i++ { for j := i; j > 0 && Less(j, j-1); j-- {
\* Swap(j, j-1) } }.  This is its inner loop, on l[j] (1-based)
RECURSIVE insertLeft(_, _)
insertLeft(l, j) ==
    IF j > 1 /\ canonicalOrderLess(l[j], l[j - 1])
    THEN insertLeft([l EXCEPT ![j - 1] = l[j], ![j] = l[j - 1]], j - 1)
    ELSE l

\* and its outer loop
RECURSIVE insertionSort(_, _)
insertionSort(l, i) ==
    IF i > Len(l) THEN l ELSE insertionSort(insertLeft(l, i), i + 1)

\* sort.Sort(r.nsecNames[qclass])
sortNames(l) == insertionSort(l, 2)

\* sort.Search(len(l), func(i int) bool { return !canonicalOrderLess(l[i], name) }):
\* the binary search for i in [lo, hi), 0-based
RECURSIVE searchLoop(_, _, _, _)
searchLoop(l, name, lo, hi) ==
    IF lo >= hi THEN lo
    ELSE LET h == (lo + hi) \div 2
         IN IF canonicalOrderLess(l[h + 1], name)
            THEN searchLoop(l, name, h + 1, hi)
            ELSE searchLoop(l, name, lo, h)

\* canonicalOrder.Previous
Previous(l, name) ==
    IF Len(l) = 0 THEN [name |-> <<>>, found |-> FALSE]
    ELSE LET i == searchLoop(l, name, 0, Len(l))
             found == i < Len(l) /\ l[i + 1] = name
             k == IF i = 0 THEN Len(l) ELSE i
         IN [name |-> l[k], found |-> found]

\* ------------------------------------------------------------------------
\* revertParams and previous

\* the first loop of revertParams: a Value of more than one label is replaced
\* by its indexable form, in the backing array
RECURSIVE revertValues(_, _, _)
revertValues(elems, off, k) ==
    IF k = 0 THEN elems
    ELSE LET e == revertValues(elems, off, k - 1)
             param == e[off + k]
         IN IF CountLabel(param.Value) > 1
            THEN [e EXCEPT ![off + k].Value = indexable(param.Value)]
            ELSE e

\* the second loop of revertParams: the params swap places end for end
swapParams(elems, off, len) ==
    SubSeq(elems, 1, off) \o reveseChars(SubSeq(elems, off + 1, off + len))
        \o SubSeq(elems, off + len + 1, Len(elems))

\* the third loop of revertParams: the milestones that hold fewer params than
\* v.params, up to the first that does not, are given the tail of v.params
RECURSIVE revertZones(_, _, _)
revertZones(zones, p, i) ==
    IF i > Len(zones) \/ zones[i].params.len >= p.len THEN zones
    ELSE revertZones([zones EXCEPT ![i].params =
                         [a |-> p.a, off |-> p.off + (p.len - zones[i].params.len),
                          len |-> zones[i].params.len]],
                     p, i + 1)

\* value.revertParams, on the locals that hold the returned value
revertParams(L) ==
    LET p == L.p
        arrs1 == IF p.a = 0 THEN L.arrs
                 ELSE [L.arrs EXCEPT ![p.a].elems =
                          swapParams(revertValues(@, p.off, p.len), p.off, p.len)]
    IN [L EXCEPT !.arrs = arrs1, !.zones = revertZones(L.zones, p, 1)]

\* node.isZone
isZone(T, n) == n # Nil /\ T[n].data.has /\ IsZoneData(T[n].data)

\* the slot of children that ind[i] stands for
slotOf(T, n, i) == IF T[n].wildChild # "none" THEN i + 2 ELSE i + 1

\* var chars [255]uint16 filled from the indices other than those in skip:
\* the bytes set, and for each byte the slot written last
charsSet(T, n, skip) ==
    {Ord(At(T[n].indices, i)) :
        i \in {k \in 0..(Len(T[n].indices) - 1) : At(T[n].indices, k) \notin skip}}

charsAt(T, n, b) ==
    slotOf(T, n, MaxOf({i \in 0..(Len(T[n].indices) - 1) : Ord(At(T[n].indices, i)) = b}))

\* no node found by a scan of chars
NotFound == -1

RECURSIVE getMax(_, _)
RECURSIVE getMaxChild(_, _)
RECURSIVE maxLoop(_, _, _)

\* "for i := len(chars) - 1; i >= 0; i--" of getMax and getMaxChild over the
\* bytes S still to visit
maxLoop(T, n, S) ==
    IF S = {} THEN NotFound
    ELSE LET b == MaxOf(S)
             child == T[n].children[charsAt(T, n, b)]
         IN IF isZone(T, child)
            THEN LET grandchild == getMaxChild(T, child)
                 IN IF grandchild # Nil THEN grandchild
                    ELSE maxLoop(T, n, S \ {b})
            ELSE LET m == getMax(T, child)
                 IN IF T[m].data.has THEN m ELSE n

\* node.getMax: "returns the maximum node"
getMax(T, n) ==
    IF n # Nil /\ Len(T[n].children) > 0
    THEN IF Len(T[n].indices) = 0
         THEN LET child == T[n].children[1]
              IN IF isZone(T, child)
                 THEN LET grandchild == getMaxChild(T, child)
                      IN IF grandchild # Nil THEN grandchild ELSE n
                 ELSE LET m == getMax(T, child)
                      IN IF T[m].data.has THEN m ELSE n
         ELSE LET r == maxLoop(T, n, charsSet(T, n, {}))
              IN IF r # NotFound THEN r ELSE n
    ELSE n

\* node.getMaxChild: the maximum below n that is not behind a '.', or nil
getMaxChild(T, n) ==
    LET S == charsSet(T, n, {"."})
        r == IF S = {} THEN NotFound ELSE maxLoop(T, n, S)
    IN IF r # NotFound THEN r ELSE Nil

RECURSIVE up(_, _, _, _, _, _)
RECURSIVE upLoop(_, _, _, _, _, _, _)
RECURSIVE goUp(_, _, _, _, _)

\* "first try indices" of previous: the slots noted in chars, from the highest
\* byte down; slot 1 under '*' is the anonymous wildcard
upLoop(T, L, n, S, star, nomatch, rest) ==
    IF S = {} THEN rest
    ELSE LET b == MaxOf(S)
             child == T[n].children[IF star /\ b = Ord("*") THEN 1 ELSE charsAt(T, n, b)]
         IN IF isZone(T, child)
            THEN LET grandchild == getMaxChild(T, child)
                 IN IF grandchild # Nil THEN grandchild
                    ELSE IF nomatch THEN child
                    ELSE upLoop(T, L, n, S \ {b}, star, nomatch, rest)
            ELSE getMax(T, child)

\* "finally go up": climb to the first ancestor reached over a non-empty
\* edge, stopping at the innermost zone
goUp(T, L, n, zone, nomatch) ==
    IF T[n].parent = Nil THEN getMax(T, L.nearest.node)
    ELSE IF T[n].parent = zone THEN zone
    ELSE IF T[n].name # <<>>
    THEN up(T, L, T[n].parent, T[n].name, zone, nomatch)
    ELSE goUp(T, L, T[n].parent, zone, nomatch)

\* the code of previous from the label "up" on
up(T, L, nearestNode, nearestName, zone, nomatch) ==
    IF nearestNode # Nil /\ nearestName # <<>>
    THEN LET n == nearestNode
             c == At(nearestName, 0)
             star == T[n].wildChild = "anonymous" /\ Ord(c) > Ord("*")
             S == {b \in charsSet(T, n, {"."}) : b < Ord(c)}
                     \cup (IF star THEN {Ord("*")} ELSE {})
             dots == {i \in 0..(Len(T[n].indices) - 1) : At(T[n].indices, i) = "."}
             dot == IF dots = {} THEN -1 ELSE MaxOf(dots)
             rest == IF dot # -1 /\ c = "." /\ isZone(T, n) THEN n
                     ELSE IF dot # -1 /\ c # "." /\ ~isZone(T, n)
                     THEN getMax(T, T[n].children[slotOf(T, n, dot)])
                     ELSE IF T[n].data.has /\ ~isZone(T, n) THEN n
                     ELSE goUp(T, L, n, zone, nomatch)
         IN upLoop(T, L, n, S, star, nomatch, rest)
    ELSE getMax(T, L.nearest.node)

\* value.previous: "returns a previous node by canonical order"
previous(T, L) ==
    LET nearestNode == L.nearest.node
        nearestName == L.nearest.name
        nomatch == L.node = Nil \/ T[L.node].name = <<"*">>
        zone == IF L.zcap # -1 THEN L.zones[Len(L.zones)].node ELSE Nil
        rest == up(T, L, nearestNode, nearestName, zone, nomatch)
    IN IF nomatch /\ nearestNode # Nil /\ nearestName # <<>>
       THEN LET c == At(nearestName, 0)
                k == IndexOf(T[nearestNode].indices, c)
                index == IF k # -1 /\ T[nearestNode].wildChild = "anonymous"
                         THEN k + 1 ELSE k
                child == T[nearestNode].children[index + 1]
            IN IF index # -1 /\ ~isZone(T, child) /\ StrLess(T[child].name, nearestName)
               THEN getMax(T, child)
               ELSE IF c = "." /\ T[nearestNode].data.has THEN nearestNode
               ELSE rest
       ELSE IF isZone(T, L.node)
       THEN LET dots == {i \in 0..(Len(T[L.node].indices) - 1) :
                            At(T[L.node].indices, i) = "."}
            IN IF dots = {} THEN L.node
               ELSE LET i == CHOOSE d \in dots : \A e \in dots : d <= e
                        child == getMax(T, T[L.node].children[slotOf(T, L.node, i)])
                    IN IF T[child].data.has THEN child ELSE L.node
       ELSE rest

\* ------------------------------------------------------------------------
\* class.go: the Class that Router.Lookup hands out

\* dns.TypeNSEC
TypeNSEC == 47

\* dns.TypeNSEC3
TypeNSEC3 == 50

\* dns.TypeCNAME, dns.TypeRRSIG, dns.TypeANY
TypeCNAME == 5

TypeRRSIG == 46

TypeANY == 255

\* sort.Search(len(l), f): the first index in lo..hi, counted from 0, whose
\* entry has key(entry) >= k, by bisection; key is "Qtype" or "TypeCovered"
RECURSIVE searchKey(_, _, _, _, _)
searchKey(l, key, k, lo, hi) ==
    IF lo < hi
    THEN LET h == (lo + hi) \div 2
         IN IF ~(l[h + 1][key] >= k)
            THEN searchKey(l, key, k, h + 1, hi)
            ELSE searchKey(l, key, k, lo, h)
    ELSE lo

\* "for i < len(l) && l[i].Qtype == qtype { ... i++ }": where the run ends
RECURSIVE runEnd(_, _, _, _)
runEnd(l, key, k, i) ==
    IF i < Len(l) /\ l[i + 1][key] = k THEN runEnd(l, key, k, i + 1) ELSE i

\* classHandler.Search that returns the first matching entry only
handlerSearchFirst(l, qtype) ==
    LET i == searchKey(l, "Qtype", qtype, 0, Len(l))
        j == runEnd(l, "Qtype", qtype, i)
    IN IF j > i THEN SubSeq(l, i + 1, i + 1) ELSE <<>>

\* classHandler.Search: "returns a slice matching with qtype"; <<>> is nil
handlerSearch(l, qtype) ==
    LET i == searchKey(l, "Qtype", qtype, 0, Len(l))
        j == runEnd(l, "Qtype", qtype, i)
    IN IF j > i THEN SubSeq(l, i + 1, j) ELSE <<>>

\* classHandler.SearchCovered: "returns a slice matching with typeCovered"
SearchCovered(l, typeCovered) ==
    LET i == searchKey(l, "TypeCovered", typeCovered, 0, Len(l))
        j == runEnd(l, "TypeCovered", typeCovered, i)
    IN IF j > i THEN SubSeq(l, i + 1, j) ELSE <<>>

\* what Search returns: the handlers h served with params (ParamsHandler),
\* under redirect # 0 wrapped in a basicType of that qtype; the class itself
\* in searchCovered mode; NoErrorHandler; NameErrorHandler
Handlers(h, params, redirect) ==
    [kind |-> "handlers", h |-> h, params |-> params, redirect |-> redirect]

Covered(h, params) == [kind |-> "class", h |-> h, params |-> params, redirect |-> 0]

NoErrorHandler == [kind |-> "noerror", h |-> <<>>, params |-> <<>>, redirect |-> 0]

NameErrorHandler == [kind |-> "nameerror", h |-> <<>>, params |-> <<>>, redirect |-> 0]

\* basicClass.isAvailable
isAvailable(c) == c.handler # <<>> \/ (c.cut /\ Len(c.zones) > 0)

\* basicClass.Search
Search(T, c, qtype) ==
    LET dname == handlerSearch(c.handler, TypeDNAME)
        cname == handlerSearch(c.handler, TypeCNAME)
        own == handlerSearch(c.handler, qtype)
        covered == SearchCovered(c.handler, qtype)
        rest == IF isAvailable(c) THEN NoErrorHandler ELSE NameErrorHandler
    IN IF c.searchMode = "searchCovered"
       THEN (IF covered # <<>> THEN Handlers(covered, c.params, 0) ELSE rest)
       ELSE IF qtype = TypeANY
       THEN (IF c.handler # <<>> THEN Handlers(c.handler, c.params, 0) ELSE rest)
       ELSE IF /\ qtype \notin {TypeRRSIG, TypeNSEC}
               /\ c.node # Nil /\ IsDnameData(T[c.node].data) /\ c.cut
       THEN Handlers(dname, c.params, IF qtype = TypeDNAME THEN 0 ELSE TypeDNAME)
       ELSE IF qtype \notin {TypeRRSIG, TypeNSEC} /\ cname # <<>>
       THEN Handlers(cname, c.params, IF qtype = TypeCNAME THEN 0 ELSE TypeCNAME)
       ELSE IF own # <<>>
       THEN (IF qtype = TypeRRSIG THEN Covered(own, c.params)
             ELSE Handlers(own, c.params, 0))
       ELSE rest

\* basicClass.Zone: the class of the innermost milestone and delegated, or
\* nil (none) with false
Zone(T, c) ==
    IF Len(c.zones) > 0
    THEN LET zone == c.zones[Len(c.zones)]
         IN [none |-> FALSE,
             class |-> [c EXCEPT !.handler = T[zone.node].data.handler,
                                 !.params = zone.params,
                                 !.zones = SubSeq(c.zones, 1, Len(c.zones) - 1),
                                 !.cut = FALSE],
             delegated |-> "soa" \notin T[zone.node].data.rrType]
    ELSE [none |-> TRUE, class |-> c, delegated |-> FALSE]

\* Router.Lookup on a Value that getValue returned and revertParams treated
classOf(T, val) ==
    [node |-> val.node, cut |-> val.cut, zones |-> val.zones, params |-> val.params,
     handler |-> IF val.node # Nil THEN T[val.node].data.handler ELSE <<>>,
     searchMode |-> "searchAny"]

\* ------------------------------------------------------------------------
\* The state machine: one caller registers routes (startup), looks names up
\* and drops the Value it got before it goes on.

\* the number of addRoute calls of a run
MaxRoutes == 3

\* no Value held by the caller
NoValue == [query |-> <<>>, panic |-> "none"]

\* a typeHandler whose Handler is a plain HandlerFunc (fakeHandler of the tests)
H(qtype, val) ==
    [Origin |-> <<>>, Qtype |-> qtype, TypeCovered |-> 0,
     Handler |-> [val |-> val, isAnswer |-> FALSE, hdrName |-> <<>>]]

\* the goroutines that serve requests
Workers == {"w1", "w2"}

\* a worker between two requests
Idle == [pc |-> "idle"]

\* tree := &node{}
Init ==
    /\ nodes = <<NewNode("static", 0, 0, Nil)>>
    /\ regs = {}
    /\ panicked = ""
    /\ v = NoValue
    /\ lk = [w \in Workers |-> Idle]
    /\ nsecNames = <<>>
    /\ nsec3Names = <<>>

\* how many times (name, h) has been registered
Times(name, h) == Cardinality({r \in regs : r.name = name /\ r.h = h})

\* tree.addRoute(name, allowDup, h), at startup or between requests: no
\* lookup is in flight; a panic ends the registering program
Register(Inputs) ==
    /\ panicked = ""
    /\ v = NoValue
    /\ \A w \in Workers : lk[w] = Idle
    /\ Cardinality(regs) < MaxRoutes
    /\ \E r \in Inputs, allowDup \in BOOLEAN :
          LET res == addRoute(nodes, r.name, allowDup, r.h)
          IN /\ nodes' = res.nodes
             /\ panicked' = IF res.err = NoErr THEN "" ELSE res.err
             /\ regs' = IF res.err = NoErr
                        THEN regs \cup {[name |-> r.name, h |-> r.h,
                                         k |-> Times(r.name, r.h) + 1]}
                        ELSE regs
             /\ UNCHANGED <<v, lk, nsecNames, nsec3Names>>

\* v := tree.getValue(q)
Lookup(Queries) ==
    /\ panicked = ""
    /\ v = NoValue
    /\ \E q \in Queries : v' = getValue(nodes, q)
    /\ UNCHANGED <<nodes, regs, panicked, lk, nsecNames, nsec3Names>>

\* the caller is done with the Value
Discard ==
    /\ v # NoValue
    /\ v' = NoValue
    /\ UNCHANGED <<nodes, regs, panicked, lk, nsecNames, nsec3Names>>

\* ---- static names: TestTreeAddAndGet in small

StaticNames ==
    { <<".">>, <<".", "a">>, <<".", "a", "b">>, <<".", "a", ".">>,
      <<".", "a", ".", "b">>, <<".", "b">>, <<".", "a", "b", ".", "a">> }

StaticInputs ==
    {[name |-> nm, h |-> H(TypeA, nm)] : nm \in StaticNames}
    \cup {[name |-> nm, h |-> H(TypeNS, nm)] : nm \in {<<".", "a">>, <<".", "a", ".", "b">>}}

StaticQueries ==
    StaticNames \cup
    { <<>>, <<".", "c">>, <<".", "a", "c">>, <<".", "a", ".", "a">>,
      <<".", "a", "b", ".">>, <<".", "b", ".", "a">>, <<".", "a", ".", "b", ".", "a">> }

RegisterStatic == Register(StaticInputs)

LookupStatic == Lookup(StaticQueries)

NextStatic == RegisterStatic \/ LookupStatic \/ Discard

SpecStatic == Init /\ [][NextStatic]_vars

\* ---- named parameters, catch-alls and anonymous wildcards:
\* TestTreeWildcard and the conflict tests in small

WildNames ==
    { <<".", "a">>,
      <<".", "a", ".", "b">>,
      <<".", "*">>,
      <<".", "a", ".", "*">>,
      <<".", "a", ".", "b", ".", "*">>,
      <<".", "a", ".", ":", "x">>,
      <<".", "a", ".", ":", "x", ".", "b">>,
      <<".", ":", "x">>,
      <<".", ":", "x", ".", "*">>,
      <<".", ":", "x", ".", "a", ".", ":", "y", ".", "b">>,
      <<".", "a", ".", "*", "x">>,
      <<".", "a", ".", ":", "x", ":", "y">>,
      <<".", "a", ".", ":">> }

WildInputs == {[name |-> nm, h |-> H(TypeA, nm)] : nm \in WildNames}

WildQueries ==
    { <<".">>, <<".", "a">>, <<".", "b">>, <<".", "a", ".">>,
      <<".", "a", ".", "b">>, <<".", "a", ".", "c">>,
      <<".", "a", ".", "b", ".", "c">>, <<".", "a", ".", "c", ".", "b">>,
      <<".", "a", ".", "c", ".", "d">>,
      <<".", "q">>, <<".", "q", ".", "c">>, <<".", "q", ".", "a">>,
      <<".", "q", ".", "a", ".", "r">>,
      <<".", "q", ".", "a", ".", "r", ".", "b">>,
      <<".", "q", ".", "a", ".", "r", ".", "c">> }

RegisterWild == Register(WildInputs)

LookupWild == Lookup(WildQueries)

Next == RegisterWild \/ LookupWild \/ Discard

Spec == Init /\ [][Next]_vars

\* ---- zones and DNAME: TestZoneAndDname in small

ZoneNames ==
    { <<".", "a">>,
      <<".", "a", ".", "b">>,
      <<".", "a", ".", "*">>,
      <<".", ":", "x">>,
      <<".", ":", "x", ".", "b">> }

\* an NS entry whose Answer lies outside its Origin: it flags no zone
ForeignNS(nm) ==
    [Origin |-> <<"b", ".">>, Qtype |-> TypeNS, TypeCovered |-> 0,
     Handler |-> [val |-> nm, isAnswer |-> TRUE, hdrName |-> <<"a", ".">>]]

ZoneInputs ==
    {[name |-> nm, h |-> H(TypeA, nm)] : nm \in ZoneNames \cup {<<".", "a", ".">>}}
    \cup {[name |-> nm, h |-> H(TypeNS, nm)] : nm \in ZoneNames \cup {<<".", "a", ".">>}}
    \cup {[name |-> nm, h |-> H(TypeDNAME, nm)] : nm \in {<<".", "a">>, <<".", ":", "x">>}}
    \cup {[name |-> nm, h |-> H(TypeSOA, nm)] : nm \in {<<".", "a">>}}
    \cup {[name |-> nm, h |-> ForeignNS(nm)] : nm \in {<<".", "a">>}}

ZoneQueries ==
    { <<".", "a">>, <<".", "a", ".">>, <<".", "a", ".", "b">>, <<".", "a", ".", "c">>,
      <<".", "a", ".", "b", ".", "c">>, <<".", "a", ".", "c", ".", "b">>,
      <<".", "q">>, <<".", "q", ".", "b">>, <<".", "q", ".", "c">>,
      <<".", "q", ".", "b", ".", "c">>, <<".", "a", "b">> }

RegisterZone == Register(ZoneInputs)

LookupZone == Lookup(ZoneQueries)

NextZone == RegisterZone \/ LookupZone \/ Discard

SpecZone == Init /\ [][NextZone]_vars

\* ---- concurrent lookups: Router.Lookup from several goroutines

\* a lookup that counts its hits in the priority of the nodes it walks through
lookupStepCountsHits(T, W) ==
    [nodes |-> IF W.pc = "walk" THEN [T EXCEPT ![W.L.n].priority = @ + 1] ELSE T,
     lk |-> IF W.pc = "walk"
            THEN LET L == walkStep(T, W.L)
                 IN [W EXCEPT !.L = L,
                              !.pc = IF L.panic # "" THEN "done"
                                     ELSE IF L.done THEN "deferred" ELSE "walk"]
            ELSE IF W.pc = "deferred"
            THEN LET L == deferred(T, W.L)
                 IN [W EXCEPT !.L = L, !.pc = IF L.panic # "" THEN "done" ELSE "revert"]
            ELSE IF W.pc = "revert"
            THEN [W EXCEPT !.L = revertParams(W.L), !.pc = "previous"]
            ELSE [W EXCEPT !.prev = previous(T, W.L), !.pc = "done"]]

\* one scheduling step of a lookup in flight: an iteration of the walk loop
\* of getValue, its deferred function, revertParams, or previous (asked of
\* the Class the lookup built).  The step gets the tree and hands it back: no
\* statement of the four writes a node or a type table.
lookupStep(T, W) ==
    [nodes |-> T,
     lk |-> IF W.pc = "walk"
            THEN LET L == walkStep(T, W.L)
                 IN [W EXCEPT !.L = L,
                              !.pc = IF L.panic # "" THEN "done"
                                     ELSE IF L.done THEN "deferred" ELSE "walk"]
            ELSE IF W.pc = "deferred"
            THEN LET L == deferred(T, W.L)
                 IN [W EXCEPT !.L = L, !.pc = IF L.panic # "" THEN "done" ELSE "revert"]
            ELSE IF W.pc = "revert"
            THEN [W EXCEPT !.L = revertParams(W.L), !.pc = "previous"]
            ELSE [W EXCEPT !.prev = previous(T, W.L), !.pc = "done"]]

\* what a worker hands to its caller
resultOf(W) == [value |-> valueOf(W.L), prev |-> W.prev]

\* the same lookup run alone, start to end
alone(T, name) ==
    LET L0 == runWalk(T, EnterGetValue(name))
        L1 == IF L0.panic # "" THEN L0 ELSE deferred(T, L0)
    IN IF L1.panic # "" THEN [value |-> valueOf(L1), prev |-> Nil]
       ELSE LET L2 == revertParams(L1)
            IN [value |-> valueOf(L2), prev |-> previous(T, L2)]

ConcNames ==
    { <<".", "a">>, <<".", "a", ".", "*">>, <<".", "a", ".", ":", "x", ".", "b">> }

ConcInputs ==
    {[name |-> nm, h |-> H(TypeA, nm)] : nm \in ConcNames}
    \cup {[name |-> <<".", "a">>, h |-> H(TypeNS, <<".", "a">>)]}

\* the first request comes in presentation form ("B.q.a"), the others are
\* indexable already
ConcQueries ==
    { <<"B", ".", "q", ".", "a">>, <<".", "a", ".", "q", ".", "c">>, <<".", "b">> }

RegisterConc == Register(ConcInputs)

\* a worker takes a request: c.value = root.getValue(newIndexableName(name))
Start(w) ==
    /\ panicked = ""
    /\ regs # {}
    /\ lk[w] = Idle
    /\ \E q \in ConcQueries :
          lk' = [lk EXCEPT ![w] = [pc |-> "walk", L |-> EnterGetValue(newIndexableName(q)),
                                   prev |-> Nil]]
    /\ UNCHANGED <<nodes, regs, panicked, v, nsecNames, nsec3Names>>

\* the scheduler runs one step of worker w
Step(w) ==
    /\ lk[w].pc \in {"walk", "deferred", "revert", "previous"}
    /\ LET r == lookupStep(nodes, lk[w])
       IN /\ nodes' = r.nodes
          /\ lk' = [lk EXCEPT ![w] = r.lk]
    /\ UNCHANGED <<regs, panicked, v, nsecNames, nsec3Names>>

\* the worker has answered its request
Finish(w) ==
    /\ lk[w].pc = "done"
    /\ lk' = [lk EXCEPT ![w] = Idle]
    /\ UNCHANGED <<nodes, regs, panicked, v, nsecNames, nsec3Names>>

NextConc == RegisterConc \/ \E w \in Workers : Start(w) \/ Step(w) \/ Finish(w)

SpecConc == Init /\ [][NextConc]_vars

\* ---- Router.Lookup on parameters and zones: TestValueRevertParams in small

RevertNames ==
    { <<".", ":", "x">>,
      <<".", ":", "x", ".", ":", "y">>,
      <<".", ":", "x", ".", ":", "y", ".", "*", "z">>,
      <<".", "a", ".", "*">>,
      <<".", "a", ".", "b", ".", ":", "x">> }

RevertInputs ==
    {[name |-> nm, h |-> H(TypeA, nm)] : nm \in RevertNames}
    \cup {[name |-> nm, h |-> H(TypeNS, nm)] :
             nm \in RevertNames \ {<<".", "a", ".", "*">>}}

RevertQueries ==
    { <<".", "q">>, <<".", "q", ".", "r">>,
      <<".", "q", ".", "r", ".", "s", ".", "t">>,
      <<".", "a", ".", "b", ".", "q">>, <<".", "a", ".", "b", ".", "q", ".", "c">>,
      <<".", "a", ".", "c">> }

RegisterRevert == Register(RevertInputs)

\* c.value = root.getValue(newIndexableName(name)); c.value.revertParams():
\* the caller holds the Value as getValue returned it and, under reverted,
\* as revertParams left it
LookupRevert ==
    /\ panicked = ""
    /\ v = NoValue
    /\ \E q \in RevertQueries :
          LET L0 == runWalk(nodes, EnterGetValue(newIndexableName(q)))
              L1 == IF L0.panic # "" THEN L0 ELSE deferred(nodes, L0)
          IN v' = IF L1.panic # "" THEN valueOf(L1)
                  ELSE [reverted |-> valueOf(revertParams(L1))] @@ valueOf(L1)
    /\ UNCHANGED <<nodes, regs, panicked, lk, nsecNames, nsec3Names>>

NextRevert == RegisterRevert \/ LookupRevert \/ Discard

SpecRevert == Init /\ [][NextRevert]_vars

\* ---- catch-all routes: TestTreeCatchAllConflict and TestTreeDupliateName
\* in small

CatchAllNames ==
    { <<".", "a", ".", "*", "x">>,
      <<".", "a", ".", "*", "x", ".", "b">>,
      <<".", "*", "x">>,
      <<".", "*", "x", ".", "b">>,
      <<".", "a", ".">>,
      <<".", "b">>,
      <<".", "b", ".", "*", "x", ".", "b">> }

CatchAllInputs == {[name |-> nm, h |-> H(TypeA, nm)] : nm \in CatchAllNames}

CatchAllQueries ==
    { <<".", "a", ".", "q">>, <<".", "a", ".", "q", ".", "b">>,
      <<".", "q">>, <<".", "q", ".", "b">>, <<".", "b">>, <<".", "a", ".">> }

RegisterCatchAll == Register(CatchAllInputs)

LookupCatchAll == Lookup(CatchAllQueries)

NextCatchAll == RegisterCatchAll \/ LookupCatchAll \/ Discard

SpecCatchAll == Init /\ [][NextCatchAll]_vars

\* ---- names on their way through newIndexableName: a caller hands
\* Router.Lookup a name it has converted already, and Lookup converts again

\* the length of the names
MaxNameLen == 4

NameBytes == {".", "a", "B", "*"}

RECURSIVE NamesUpTo(_)
NamesUpTo(n) ==
    IF n = 0 THEN {<<>>}
    ELSE NamesUpTo(n - 1)
         \cup {Append(s, c) : s \in {t \in NamesUpTo(n - 1) : Len(t) = n - 1},
                              c \in NameBytes}

\* how many times a name is converted on its way
MaxConversions == 3

\* a caller converts the name of a request
Convert ==
    /\ v = NoValue
    /\ \E s \in NamesUpTo(MaxNameLen) :
          v' = [query |-> s, panic |-> "", name |-> newIndexableName(s),
                first |-> newIndexableName(s), times |-> 1]
    /\ UNCHANGED <<nodes, regs, panicked, lk, nsecNames, nsec3Names>>

\* the callee converts what it was handed
ConvertAgain ==
    /\ v # NoValue
    /\ v.times < MaxConversions
    /\ v' = [v EXCEPT !.name = newIndexableName(v.name), !.times = @ + 1]
    /\ UNCHANGED <<nodes, regs, panicked, lk, nsecNames, nsec3Names>>

NextName == Convert \/ ConvertAgain \/ Discard

SpecName == Init /\ [][NextName]_vars

\* ---- sort.Sort and sort.Search at work on a canonicalOrder: the calls of
\* canonicalOrderLess on two names, TestCanonicalOrder in small

\* labels: static ones (one with a byte below '.', one of them the lone
\* asterisk), named parameters and a named catch-all
OrderLabels ==
    { <<"a">>, <<"b">>, <<"a", "-">>, <<"*">>,
      <<":", "a">>, <<":", "b">>, <<"*", "a">> }

\* indexable names of no, one and two labels
OrderNames ==
    {<<".">>}
    \cup {<<".">> \o l : l \in OrderLabels}
    \cup {<<".">> \o l \o <<".">> \o m : l \in OrderLabels, m \in OrderLabels}

\* canonicalOrder.Less(a, b) and, the other way round, Less(b, a)
Compare ==
    /\ v = NoValue
    /\ \E x \in OrderNames, y \in OrderNames :
          v' = [query |-> x, panic |-> "", other |-> y,
                less |-> canonicalOrderLess(x, y),
                greater |-> canonicalOrderLess(y, x)]
    /\ UNCHANGED <<nodes, regs, panicked, lk, nsecNames, nsec3Names>>

NextOrder == Compare \/ Discard

SpecOrder == Init /\ [][NextOrder]_vars

\* ---- Router.handle and Router.nsecPrevious, for one class

\* Router.handle(name, qclass, qtype, typeCovered, handler): the tree and the
\* two orders after the call, err # NoErr when it panicked
handle(T, nsec, nsec3, name, qtype, handler) ==
    IF name = <<>> \/ (Len(name) > 1 /\ isIndexable(name))
    THEN [nodes |-> T, err |-> "IllegalDomain", nsec |-> nsec, nsec3 |-> nsec3]
    ELSE LET indexableName == newIndexableName(name)
             res == addRoute(T, indexableName, TRUE, handler)
         IN IF res.err # NoErr
            THEN [nodes |-> res.nodes, err |-> res.err, nsec |-> nsec, nsec3 |-> nsec3]
            ELSE [nodes |-> res.nodes, err |-> NoErr,
                  nsec |-> IF qtype = TypeNSEC
                           THEN sortNames(Append(nsec, indexableName)) ELSE nsec,
                  nsec3 |-> IF qtype = TypeNSEC3
                            THEN sortNames(Append(nsec3, indexableName)) ELSE nsec3]

\* names as Handle gets them, in presentation form: two that differ in case
\* only, one with a byte below '.', a wildcard owner, and one that is not a
\* legal domain for having the indexable form already
HandleNames ==
    { <<"a", ".">>, <<"A", ".">>, <<"b", ".">>, <<"b", ".", "a", ".">>,
      <<"a", "-", ".">>, <<"*", ".", "a", ".">>, <<".", "a">> }

HandleInputs ==
    {[name |-> nm, qtype |-> t] : nm \in HandleNames, t \in {TypeNSEC, TypeNSEC3}}
    \cup {[name |-> <<"a", ".">>, qtype |-> TypeA]}

\* r.handle(name, qclass, qtype, 0, handler), at startup or between requests
Handle ==
    /\ panicked = ""
    /\ v = NoValue
    /\ \A w \in Workers : lk[w] = Idle
    /\ Cardinality(regs) < MaxRoutes
    /\ \E r \in HandleInputs :
        \E res \in {handle(nodes, nsecNames, nsec3Names, r.name, r.qtype,
                            H(r.qtype, r.name))} :
          LET h == H(r.qtype, r.name)
              nm == newIndexableName(r.name)
          IN /\ nodes' = res.nodes
             /\ nsecNames' = res.nsec
             /\ nsec3Names' = res.nsec3
             /\ panicked' = IF res.err = NoErr THEN "" ELSE res.err
             /\ regs' = IF res.err = NoErr
                        THEN regs \cup {[name |-> nm, h |-> h, k |-> Times(nm, h) + 1]}
                        ELSE regs
             /\ UNCHANGED <<v, lk>>

PreviousQueries ==
    { <<"a", ".">>, <<"b", ".", "a", ".">>, <<"a", "-", ".">>, <<"c", ".">>,
      <<"*", ".", "a", ".">>, <<"a", ".", "*", ".">>, <<"B", ".">>, <<".">> }

\* r.nsecPrevious(name, qclass, qtype): Previous on the order of the qtype;
\* the caller holds the name it asked for (in indexable form), the order it
\* asked, and the two results of Previous
NsecPrevious ==
    /\ panicked = ""
    /\ v = NoValue
    /\ \E q \in PreviousQueries, t \in {TypeNSEC, TypeNSEC3} :
          LET l == IF t = TypeNSEC THEN nsecNames ELSE nsec3Names
              r == Previous(l, newIndexableName(q))
          IN v' = [query |-> newIndexableName(q), panic |-> "", order |-> l,
                   name |-> r.name, found |-> r.found]
    /\ UNCHANGED <<nodes, regs, panicked, lk, nsecNames, nsec3Names>>

NextHandle == Handle \/ NsecPrevious \/ Discard

SpecHandle == Init /\ [][NextHandle]_vars


\* ---- Value.previous without zones: TestValuePrevious in small

\* v := tree.getValue(q); previous := v.previous(): the caller holds the
\* Value and, under previous, the node that previous returned
LookupPrevious(Queries) ==
    /\ panicked = ""
    /\ v = NoValue
    /\ \E q \in Queries :
          LET L0 == runWalk(nodes, EnterGetValue(q))
              L1 == IF L0.panic # "" THEN L0 ELSE deferred(nodes, L0)
          IN v' = IF L1.panic # "" THEN valueOf(L1)
                  ELSE [previous |-> previous(nodes, L1)] @@ valueOf(L1)
    /\ UNCHANGED <<nodes, regs, panicked, lk, nsecNames, nsec3Names>>

\* static names that share prefixes inside and across labels, one with a
\* byte below '.', and an anonymous wildcard
PrevNames ==
    { <<".", "a">>, <<".", "a", ".", "b">>, <<".", "a", "-">>, <<".", "a", "b">>,
      <<".", "a", "b", ".", "a">>, <<".", "b">>, <<".", "a", ".", "*">> }

PrevInputs == {[name |-> nm, h |-> H(TypeA, nm)] : nm \in PrevNames}

\* the names registered, and names before, between and after them
PrevQueries ==
    PrevNames \cup
    { <<".", "a", ".", "a">>, <<".", "a", ".", "c">>, <<".", "a", "a">>,
      <<".", "a", "c">>, <<".", "c">>, <<".", "-">>, <<".", "a", ".", "b", ".", "c">> }

RegisterPrev == Register(PrevInputs)

LookupPrev == LookupPrevious(PrevQueries)

NextPrev == RegisterPrev \/ LookupPrev \/ Discard

SpecPrev == Init /\ [][NextPrev]_vars


\* ---- Value.previous with zones: TestZoneValuePrevious in small

\* a zone, names below it, a zone below it and a name next to it
PrevZoneNames ==
    { <<".", "a">>, <<".", "a", ".", "b">>, <<".", "a", ".", "c">>,
      <<".", "a", ".", "c", ".", "a">>, <<".", "a", ".", "d">>, <<".", "b">> }

\* each name as a plain name (A) and as a zone (NS)
PrevZoneInputs ==
    {[name |-> nm, h |-> H(t, nm)] : nm \in PrevZoneNames, t \in {TypeA, TypeNS}}

PrevZoneQueries ==
    PrevZoneNames \cup
    { <<".", "a", ".", "a">>, <<".", "a", ".", "c", ".", "b">>,
      <<".", "a", ".", "e">>, <<".", "a", ".", "b", ".", "a">> }

RegisterPrevZone == Register(PrevZoneInputs)

LookupPrevZone == LookupPrevious(PrevZoneQueries)

NextPrevZone == RegisterPrevZone \/ LookupPrevZone \/ Discard

SpecPrevZone == Init /\ [][NextPrevZone]_vars


\* ---- Router.Lookup, Class.Search and Class.Zone: TestCNAME and the
\* middleware's use of a Class, in small

\* no answer of Search yet
NoAnswer == [kind |-> "none", h |-> <<>>, params |-> <<>>, redirect |-> 0]

\* a zone apex with and without SOA, and below it a name that is a zone, a
\* DNAME or CNAME owner, signed, or plain, and a name below that one
ClassInputs ==
    { [name |-> <<".", "a">>, h |-> H(TypeNS, <<"ns">>)],
      [name |-> <<".", "a">>, h |-> H(TypeSOA, <<"soa">>)],
      [name |-> <<".", "a", ".", "b">>, h |-> H(TypeDNAME, <<"dname">>)],
      [name |-> <<".", "a", ".", "b">>, h |-> H(TypeCNAME, <<"cname">>)],
      [name |-> <<".", "a", ".", "b">>, h |-> H(TypeA, <<"a">>)],
      [name |-> <<".", "a", ".", "b">>, h |-> H(TypeNS, <<"ns">>)],
      [name |-> <<".", "a", ".", "b">>,
       h |-> [H(TypeRRSIG, <<"sig">>) EXCEPT !.TypeCovered = TypeA]],
      [name |-> <<".", "a", ".", "b", ".", "c">>, h |-> H(TypeA, <<"a">>)] }

ClassQueries ==
    { <<".", "a">>, <<".", "a", ".", "b">>, <<".", "a", ".", "b", ".", "c">>,
      <<".", "a", ".", "b", ".", "d">>, <<".", "c">> }

\* the query types asked of a Class
ClassQtypes == {TypeA, TypeCNAME, TypeDNAME, TypeNSEC, TypeRRSIG, TypeANY}

RegisterClass == Register(ClassInputs)

\* class := r.Lookup(name, qclass): the caller holds the Class, the Value as
\* getValue returned it, the zone nodes and delegated flags that Zone has
\* given so far, and the answers of Search
LookupClass ==
    /\ panicked = ""
    /\ v = NoValue
    /\ \E q \in ClassQueries :
          LET L0 == runWalk(nodes, EnterGetValue(newIndexableName(q)))
              L1 == IF L0.panic # "" THEN L0 ELSE deferred(nodes, L0)
          IN v' = IF L1.panic # "" THEN valueOf(L1)
                  ELSE [query |-> L1.query, panic |-> "",
                        value |-> valueOf(L1),
                        class |-> classOf(nodes, valueOf(revertParams(L1))),
                        visited |-> <<>>, delegated |-> <<>>, ended |-> FALSE,
                        asked |-> 0, answer |-> NoAnswer,
                        askedCovered |-> 0, answerCovered |-> NoAnswer]
    /\ UNCHANGED <<nodes, regs, panicked, lk, nsecNames, nsec3Names>>

\* the caller holds a Class
HasClass == v # NoValue /\ v.panic = "" /\ "class" \in DOMAIN v

\* h := class.Search(qtype)
SearchClass ==
    /\ HasClass
    /\ v.asked = 0
    /\ \E qtype \in ClassQtypes :
          v' = [v EXCEPT !.asked = qtype, !.answer = Search(nodes, v.class, qtype)]
    /\ UNCHANGED <<nodes, regs, panicked, lk, nsecNames, nsec3Names>>

\* if rrsig, ok := class.Search(dns.TypeRRSIG).(Class); ok { sig := rrsig.Search(qtype) }
SearchCoveredClass ==
    /\ HasClass
    /\ v.answer.kind = "class"
    /\ v.askedCovered = 0
    /\ \E qtype \in ClassQtypes :
          v' = [v EXCEPT !.askedCovered = qtype,
                         !.answerCovered =
                            Search(nodes, [v.class EXCEPT !.searchMode = "searchCovered",
                                                          !.handler = v.answer.h], qtype)]
    /\ UNCHANGED <<nodes, regs, panicked, lk, nsecNames, nsec3Names>>

\* zone, delegated := class.Zone(), and the caller goes on with zone
ZoneClass ==
    /\ HasClass
    /\ v.asked = 0
    /\ ~v.ended
    /\ LET z == Zone(nodes, v.class)
       IN v' = IF z.none THEN [v EXCEPT !.ended = TRUE]
               ELSE [v EXCEPT !.class = z.class,
                              !.visited = Append(@, v.class.zones[Len(v.class.zones)].node),
                              !.delegated = Append(@, z.delegated)]
    /\ UNCHANGED <<nodes, regs, panicked, lk, nsecNames, nsec3Names>>

NextClass ==
    RegisterClass \/ LookupClass \/ SearchClass \/ SearchCoveredClass \/ ZoneClass \/ Discard

SpecClass == Init /\ [][NextClass]_vars


\* ---- the type table of one name: appends and classHandler.Search

\* the entries a type table may hold at most
MaxTable == 5

\* the name whose table is built
TableName == <<".", "a">>

\* entries of four qtypes, two of them alike in (Qtype, TypeCovered), and
\* RRSIG entries that cover different types
TableEntries ==
    { H(TypeA, <<"x">>), H(TypeA, <<"y">>), H(TypeNS, <<"x">>), H(TypeCNAME, <<"x">>),
      [H(TypeRRSIG, <<"x">>) EXCEPT !.TypeCovered = TypeA],
      [H(TypeRRSIG, <<"x">>) EXCEPT !.TypeCovered = TypeNS] }

\* qtypes in the table and qtypes between and above them
TableQtypes == {TypeA, TypeNS, TypeCNAME, TypeSOA, TypeRRSIG, TypeNSEC}

\* tree.addRoute(name, true, h) for one more entry of the name: the first
\* call makes the root the leaf of the name, each later one appends to its
\* table (nodeData.addHandler)
AppendEntry ==
    /\ panicked = ""
    /\ v = NoValue
    /\ \A w \in Workers : lk[w] = Idle
    /\ Len(nodes[Root].data.handler) < MaxTable
    /\ \E h \in TableEntries :
        \E res \in {addRoute(nodes, TableName, TRUE, h)} :
          /\ nodes' = res.nodes
          /\ panicked' = IF res.err = NoErr THEN "" ELSE res.err
          /\ regs' = IF res.err = NoErr
                     THEN regs \cup {[name |-> TableName, h |-> h,
                                      k |-> Times(TableName, h) + 1]}
                     ELSE regs
          /\ UNCHANGED <<v, lk, nsecNames, nsec3Names>>

\* l := tree.getValue(name).node.data.handler; l.Search(qtype): the caller
\* holds the table, the qtype asked and the slice returned
SearchEntry ==
    /\ panicked = ""
    /\ v = NoValue
    /\ \E qtype \in TableQtypes :
          LET val == getValue(nodes, TableName)
              l == IF val.panic = "" /\ val.node # Nil
                   THEN nodes[val.node].data.handler ELSE <<>>
          IN v' = [query |-> TableName, panic |-> val.panic, table |-> l,
                   qtype |-> qtype, found |-> handlerSearch(l, qtype)]
    /\ UNCHANGED <<nodes, regs, panicked, lk, nsecNames, nsec3Names>>

NextTable == AppendEntry \/ SearchEntry \/ Discard

SpecTable == Init /\ [][NextTable]_vars


\* ---- child order below a node that has an anonymous wildcard child

\* registrations of one program
MaxPrio == 5

\* the anonymous wildcard of the root under two types, two names next to it
\* and a name below one of them
PrioInputs ==
    { [name |-> <<".", "*">>, h |-> H(TypeA, <<".", "*">>)],
      [name |-> <<".", "*">>, h |-> H(TypeNS, <<".", "*">>)],
      [name |-> <<".", "a">>, h |-> H(TypeA, <<".", "a">>)],
      [name |-> <<".", "b">>, h |-> H(TypeA, <<".", "b">>)],
      [name |-> <<".", "b", ".", "c">>, h |-> H(TypeA, <<".", "b", ".", "c">>)] }

PrioQueries == { <<".", "a">>, <<".", "b">>, <<".", "c">> }

\* tree.addRoute(name, allowDup, h) of a program that registers up to
\* MaxPrio times
RegisterPrio ==
    /\ panicked = ""
    /\ v = NoValue
    /\ \A w \in Workers : lk[w] = Idle
    /\ Cardinality(regs) < MaxPrio
    /\ \E r \in PrioInputs, allowDup \in BOOLEAN :
        \E res \in {addRoute(nodes, r.name, allowDup, r.h)} :
          /\ nodes' = res.nodes
          /\ panicked' = IF res.err = NoErr THEN "" ELSE res.err
          /\ regs' = IF res.err = NoErr
                     THEN regs \cup {[name |-> r.name, h |-> r.h,
                                      k |-> Times(r.name, r.h) + 1]}
                     ELSE regs
          /\ UNCHANGED <<v, lk, nsecNames, nsec3Names>>

LookupPrio == Lookup(PrioQueries)

NextPrio == RegisterPrio \/ LookupPrio \/ Discard

SpecPrio == Init /\ [][NextPrio]_vars


\* ------------------------------------------------------------------------
\* Claims

\* the type table of node n
TableOf(n) == nodes[n].data.handler

\* how many times entry h occurs in table l
Occurs(l, h) == Cardinality({i \in 1..Len(l) : l[i] = h})

\* the entries registered under name q, as the set of their (entry, k) records
RegisteredUnder(q) == {r \in regs : r.name = q}

\* a lookup has returned on a tree built by successful registrations only
Looked == panicked = "" /\ v # NoValue

RECURSIVE TablesBelow(_, _, _)
TablesBelow(T, n, prefix) ==
    LET full == prefix \o T[n].name
    IN (IF T[n].data.has
        THEN {[name |-> full, handler |-> T[n].data.handler, rrType |-> T[n].data.rrType]}
        ELSE {})
       \cup UNION {TablesBelow(T, T[n].children[k], full) : k \in 1..Len(T[n].children)}

\* every type table of the tree, by full name
Tables(T) == TablesBelow(T, Root, <<>>)

\* C2 (as stated): an addRoute call that ends in a registration error leaves
\* the tree exactly as it was before the call: no node created or split, no
\* priority, maxParams, indices, wildChild or type table changed.
C2_NoPartialCommit ==
    [][(panicked = "" /\ panicked' # "") => nodes' = nodes]_vars

\* C2 (amended): an addRoute call that ends in a registration error attaches
\* no entry and loses none: every type table, taken with the full name of its
\* node, is after the call what it was before it. (Priorities and maxParams
\* raised on the way down, an edge split and nodes created before the error
\* stay.)
C2_FailedAddKeepsTables ==
    [][(panicked = "" /\ panicked' # "") => Tables(nodes') = Tables(nodes)]_vars

\* C2 witness: a registration failed on a wildcard conflict in a tree of two
\* routes, after it had already created or split a node
C2_Witness ==
    /\ panicked = "WildcardConflict"
    /\ Cardinality(regs) = 2
    /\ Cardinality(Tables(nodes)) = 2
    /\ Len(nodes) > 3

\* C3: getValue always returns a Value: it does not panic, whatever the tree
\* built by successful registrations and whatever the query.
C3_LookupNeverPanics == Looked => v.panic = ""

\* C4: getValue, revertParams and previous write no tree node and no type
\* table, and every lookup that ran interleaved with the lookups of other
\* workers hands back what the same lookup returns when it runs alone on the
\* tree: the same node, params, zones, nearest, cut and previous node.
C4_LookupsDoNotInterfere ==
    /\ [](\A w \in Workers :
             lk[w].pc = "done" => resultOf(lk[w]) = alone(nodes, lk[w].L.query))
    /\ [][lk' # lk => nodes' = nodes]_vars

\* C4 witness: one worker has finished a lookup that matched a node and
\* captured a parameter while the other is in the middle of its walk
C4_Witness ==
    /\ lk["w1"].pc = "done"
    /\ lk["w1"].L.node # Nil
    /\ lk["w1"].L.p.len > 0
    /\ lk["w1"].prev # Nil
    /\ lk["w2"].pc = "walk"
    /\ Len(lk["w2"].L.visited) > 0

\* the static child of n whose name begins with c, Nil if there is none
staticChild(T, n, c) ==
    LET S == {k \in 1..Len(T[n].children) :
                 /\ T[T[n].children[k]].nType = "static"
                 /\ T[T[n].children[k]].name # <<>>
                 /\ Head(T[T[n].children[k]].name) = c}
    IN IF S = {} THEN Nil ELSE T[n].children[CHOOSE k \in S : TRUE]

\* the named wildcard child of n (':ident' or '*ident'), Nil if there is none
namedChild(T, n) ==
    LET S == {k \in 1..Len(T[n].children) :
                 T[T[n].children[k]].nType \in {"param", "catchAll"}}
    IN IF S = {} THEN Nil ELSE T[n].children[CHOOSE k \in S : TRUE]

\* the child the descent takes from n for the rest of the name: the static
\* child on its first byte, else the named wildcard child
nextChild(T, n, rest) ==
    IF staticChild(T, n, Head(rest)) # Nil THEN staticChild(T, n, Head(rest))
    ELSE namedChild(T, n)

\* what node n consumes of name: its whole edge, one label (':ident') or
\* everything ('*ident'); -1 when it does not match
consumed(T, n, name) ==
    IF T[n].nType = "param" THEN segEnd(name, 0)
    ELSE IF T[n].nType = "catchAll" THEN Len(name)
    ELSE IF T[n].nType = "anonymousCatchAll" THEN -1
    ELSE IF HasPrefix(name, T[n].name) THEN Len(T[n].name) ELSE -1

\* the descent through static and named-parameter children only: the nodes
\* it goes through with something of the name left, then the node where the
\* name ends (Nil when the descent gets stuck before)
RECURSIVE descent(_, _, _)
descent(T, n, name) ==
    LET k == consumed(T, n, name)
    IN IF n = Nil \/ k = -1 THEN [path |-> <<>>, end |-> Nil]
       ELSE IF k = Len(name) THEN [path |-> <<>>, end |-> n]
       ELSE LET d == descent(T, nextChild(T, n, From(name, k)), From(name, k))
            IN [path |-> <<n>> \o d.path, end |-> d.end]

\* the descent matches the query: it ends on a node that carries data
Matched(T, q) ==
    LET d == descent(T, Root, q) IN d.end # Nil /\ T[d.end].data.has

\* the deepest node of the descent path that has an anonymous wildcard child
DeepestAnonymous(T, q) ==
    LET path == descent(T, Root, q).path
        S == {i \in 1..Len(path) : T[path[i]].wildChild = "anonymous"}
    IN IF S = {} THEN Nil ELSE path[MaxOf(S)]

IsAnonymous(T, n) == n # Nil /\ T[n].nType = "anonymousCatchAll"

\* C5: getValue returns an anonymous wildcard node only when the descent
\* through static and named-parameter children does not match the query (a
\* match of the descent is the node returned), and the anonymous wildcard it
\* returns is the child of the deepest node of the descent path that has one.
C5_FallbackOnlyOnFailure ==
    (Looked /\ v.panic = "") =>
        /\ Matched(nodes, v.query) => v.node = descent(nodes, Root, v.query).end
        /\ IsAnonymous(nodes, v.node) =>
              /\ ~Matched(nodes, v.query)
              /\ v.nfb = 1
              /\ nodes[v.node].parent = DeepestAnonymous(nodes, v.query)
        /\ v.nfb <= 1

\* C5 witness: the fallback went to the anonymous wildcard of a node below
\* the root although the root has an anonymous wildcard too
C5_Witness ==
    /\ Looked
    /\ IsAnonymous(nodes, v.node)
    /\ v.nfb = 1
    /\ nodes[Root].wildChild = "anonymous"
    /\ nodes[v.node].parent # Root

\* what the descent has captured and what it has left of the name when it
\* has gone through node target: one Param per ':ident' node on the way
RECURSIVE captureTo(_, _, _, _, _)
captureTo(T, n, name, target, acc) ==
    LET k == consumed(T, n, name)
        acc1 == IF T[n].nType = "param"
                THEN Append(acc, [Key |-> From(T[n].name, 1), Value |-> Slice(name, 0, k)])
                ELSE acc
    IN IF n = target THEN [params |-> acc1, rest |-> From(name, k)]
       ELSE captureTo(T, nextChild(T, n, From(name, k)), From(name, k), target, acc1)

\* the lookup returned the anonymous wildcard of a node of the descent path
MatchedAnonymous ==
    /\ Looked
    /\ v.panic = ""
    /\ IsAnonymous(nodes, v.node)
    /\ \E i \in 1..Len(descent(nodes, Root, v.query).path) :
          descent(nodes, Root, v.query).path[i] = nodes[v.node].parent

\* C6: when getValue matches an anonymous wildcard node, the params are
\* those captured on the path from the root to the wildcard's parent,
\* followed by one last Param with an empty Key whose Value is all that the
\* query has left at that parent.
C6_AnonymousCapture ==
    MatchedAnonymous =>
        LET c == captureTo(nodes, Root, v.query, nodes[v.node].parent, <<>>)
        IN v.params = Append(c.params, [Key |-> <<>>, Value |-> c.rest])

\* the labels of a name: the pieces between its dots (a name that begins
\* with '.' has an empty first label)
RECURSIVE Labels(_)
Labels(s) ==
    LET k == segEnd(s, 0)
    IN IF k = Len(s) THEN <<s>> ELSE <<Slice(s, 0, k)>> \o Labels(From(s, k + 1))

IsParamLabel(l) == l # <<>> /\ Head(l) = ":"

IsCatchAllLabel(l) == l # <<>> /\ Head(l) = "*"

\* a route of static and ':ident' labels, with one ':ident' at least
IsParamRoute(r) ==
    /\ \E i \in 1..Len(Labels(r)) : IsParamLabel(Labels(r)[i])
    /\ \A i \in 1..Len(Labels(r)) : ~IsCatchAllLabel(Labels(r)[i])

\* the query matches the route label by label: a static label matches
\* itself and a ':ident' label matches any one label that is not empty
RouteMatches(r, q) ==
    /\ Len(Labels(r)) = Len(Labels(q))
    /\ \A i \in 1..Len(Labels(r)) :
          \/ IsParamLabel(Labels(r)[i]) /\ Labels(q)[i] # <<>>
          \/ Labels(r)[i] = Labels(q)[i]

\* one Param per ':ident' label of the route, in the order of the labels
RECURSIVE ExpectedParams(_, _, _)
ExpectedParams(rl, ql, i) ==
    IF i > Len(rl) THEN <<>>
    ELSE (IF IsParamLabel(rl[i])
          THEN <<[Key |-> Tail(rl[i]), Value |-> ql[i]]>> ELSE <<>>)
         \o ExpectedParams(rl, ql, i + 1)

\* C7: when the query matches a registered route of static and ':ident'
\* labels, the lookup returns a node that carries the entries registered
\* under that route, with one Param per ':ident' label of the route, keyed by
\* the ident and valued with the query label at the same position, in order;
\* and the entries of such a route are returned only to a query that matches
\* it label by label (':ident' stands for one label, never none, never two).
C7_NamedParams ==
    (Looked /\ v.panic = "") =>
        \A r \in regs :
            IsParamRoute(r.name) =>
                /\ RouteMatches(r.name, v.query) =>
                      /\ v.node # Nil
                      /\ Occurs(TableOf(v.node), r.h) > 0
                      /\ v.params = ExpectedParams(Labels(r.name), Labels(v.query), 1)
                /\ (v.node # Nil /\ Occurs(TableOf(v.node), r.h) > 0) =>
                      RouteMatches(r.name, v.query)

\* q is an empty non-terminal: nothing is registered under q itself and some
\* registered route continues q with a '.'
IsEmptyNonTerminal(q) ==
    \E r \in regs :
        /\ Len(r.name) > Len(q)
        /\ HasPrefix(r.name, q)
        /\ At(r.name, Len(q)) = "."

\* C8: when getValue matches no node, cut is TRUE exactly when the query is a
\* proper prefix, ending at a label boundary, of a registered route.
C8_CutIffEmptyNonTerminal ==
    (Looked /\ v.panic = "" /\ v.node = Nil) => (v.cut <=> IsEmptyNonTerminal(v.query))

\* the first node of the descent that is flagged DNAME and is left with a
\* remainder that begins with '.', Nil if there is none
RECURSIVE firstDname(_, _, _)
firstDname(T, n, name) ==
    LET k == consumed(T, n, name)
    IN IF n = Nil \/ k = -1 \/ k = Len(name) THEN Nil
       ELSE IF T[n].data.has /\ IsDnameData(T[n].data) /\ At(name, k) = "." THEN n
       ELSE firstDname(T, nextChild(T, n, From(name, k)), From(name, k))

\* C9: when the descent reaches a node flagged DNAME with a remainder that
\* begins with '.', getValue returns that node with cut = TRUE, be the node
\* static or a named parameter, whatever is registered below it.
C9_DnameCuts ==
    (Looked /\ v.panic = "" /\ firstDname(nodes, Root, v.query) # Nil) =>
        /\ v.node = firstDname(nodes, Root, v.query)
        /\ v.cut

\* the tree path from the root to node n
RECURSIVE PathTo(_, _)
PathTo(T, n) == IF n = Nil THEN <<>> ELSE Append(PathTo(T, T[n].parent), n)

\* the zone nodes of a path, outermost first: a node above the end counts
\* when the path leaves it at a label boundary, the end node counts always
RECURSIVE zonesOfPath(_, _, _)
zonesOfPath(T, path, i) ==
    IF i > Len(path) THEN <<>>
    ELSE (IF /\ isZone(T, path[i])
             /\ (i = Len(path) \/ HasPrefix(T[path[i + 1]].name, <<".">>))
          THEN <<path[i]>> ELSE <<>>)
         \o zonesOfPath(T, path, i + 1)

\* the zone nodes that the descent through static and named-parameter
\* children leaves at a label boundary
RECURSIVE zonesOfDescent(_, _, _)
zonesOfDescent(T, n, name) ==
    LET k == consumed(T, n, name)
    IN IF n = Nil \/ k = -1 \/ k = Len(name) THEN <<>>
       ELSE (IF isZone(T, n) /\ At(name, k) = "." THEN <<n>> ELSE <<>>)
            \o zonesOfDescent(T, nextChild(T, n, From(name, k)), From(name, k))

\* the nodes of the milestones of the returned zones stack
RECURSIVE zoneNodes(_)
zoneNodes(zs) == IF zs = <<>> THEN <<>> ELSE <<Head(zs).node>> \o zoneNodes(Tail(zs))

\* C10: the zones stack lists, outermost first and each once, exactly the
\* zone nodes on the tree path from the root to the node where the lookup
\* ended: the zones left at a label boundary above the result and the matched
\* node itself when it is a zone; nothing of a branch abandoned for the
\* fallback.
C10_ZonesAreThePath ==
    (Looked /\ v.panic = "") =>
        zoneNodes(v.zones) =
            IF v.node # Nil THEN zonesOfPath(nodes, PathTo(nodes, v.node), 1)
            ELSE zonesOfDescent(nodes, Root, v.query)

\* ---- C11

\* what rule (i) of revertParams makes of a captured parameter
revertedParam(p) ==
    [Key |-> p.Key,
     Value |-> IF CountLabel(p.Value) > 1 THEN indexable(p.Value) ELSE p.Value]

\* a parameter list end for end, each Value by rule (i)
RECURSIVE reversedParams(_)
reversedParams(ps) ==
    IF ps = <<>> THEN <<>>
    ELSE Append(reversedParams(Tail(ps)), revertedParam(Head(ps)))

\* the last k elements of a list
TailOf(ps, k) == SubSeq(ps, Len(ps) - k + 1, Len(ps))

Reverted == Looked /\ v.panic = ""

\* C11: after revertParams the params are the captured ones in reverse
\* order, and the params of every zone milestone are the reverse of the
\* parameters the milestone held at the return of getValue, which is the tail
\* of that length of the reversed params.
C11_RevertAlignsZones ==
    Reverted =>
       /\ v.reverted.params = reversedParams(v.params)
       /\ \A i \in 1..Len(v.zones) :
             /\ Len(v.zones[i].params) <= Len(v.params)
             /\ v.reverted.zones[i].params = reversedParams(v.zones[i].params)
             /\ v.reverted.zones[i].params =
                   TailOf(v.reverted.params, Len(v.zones[i].params))

\* ---- C12

\* the type table of the node whose full name is name (the terminal node of
\* name, when it carries data)
TerminalTables(T, name) == {t \in Tables(T) : t.name = name}

\* table l with one more occurrence of h and everything it held kept
Gained(l1, l, h) ==
    /\ Len(l1) = Len(l) + 1
    /\ Occurs(l1, h) = Occurs(l, h) + 1
    /\ \A k \in 1..Len(l) : Occurs(l1, l[k]) >= Occurs(l, l[k])

\* C12: in every tree built by successful registrations, addRoute of a name
\* whose terminal node carries data fails with DuplicateRoute when allowDup
\* is false; when allowDup is true it succeeds, creates no node, and the
\* type table of that node gains the entry and keeps the entries it had,
\* every other table staying as it was.
C12_DuplicateTerminal ==
    panicked = "" =>
       \A r \in WildInputs :
          \A t \in TerminalTables(nodes, r.name) :
             /\ addRoute(nodes, r.name, FALSE, r.h).err = "DuplicateRoute"
             /\ LET res == addRoute(nodes, r.name, TRUE, r.h)
                IN /\ res.err = NoErr
                   /\ Len(res.nodes) = Len(nodes)
                   /\ Tables(res.nodes) \ TerminalTables(res.nodes, r.name)
                         = Tables(nodes) \ {t}
                   /\ \A t1 \in TerminalTables(res.nodes, r.name) :
                         Gained(t1.handler, t.handler, r.h)
                   /\ TerminalTables(res.nodes, r.name) # {}

\* C12 witness: a name has been registered a second time, with allowDup
\* true, its table holds both entries, and a third route is in the tree
C12_Witness ==
    /\ panicked = ""
    /\ Cardinality(regs) = 3
    /\ \E r \in regs :
          /\ r.k = 2
          /\ \E t \in TerminalTables(nodes, r.name) : Len(t.handler) = 2

\* ---- C13

\* a named catch-all label: '*' and an ident
IsNamedCatchAll(l) == IsCatchAllLabel(l) /\ Len(l) > 1

\* the routes that end in a named catch-all label and that name goes on from
\* with further labels
CatchAllPrefixes(name) ==
    {Slice(name, 0, e) : e \in {k \in 1..(Len(name) - 1) :
        /\ At(name, k) = "."
        /\ LET ls == Labels(Slice(name, 0, k)) IN IsNamedCatchAll(ls[Len(ls)])}}

\* C13: addRoute of a name in which a named catch-all label is followed by
\* further labels fails with CatchAllNotAtEnd, on the empty tree and on every
\* tree in which the catch-all route itself has been registered, whatever
\* allowDup is.
C13_CatchAllNotAtEnd ==
    panicked = "" =>
       \A r \in CatchAllInputs, allowDup \in BOOLEAN :
          (/\ CatchAllPrefixes(r.name) # {}
           /\ \/ regs = {}
              \/ \E x \in regs : x.name \in CatchAllPrefixes(r.name))
          => addRoute(nodes, r.name, allowDup, r.h).err = "CatchAllNotAtEnd"

\* ---- C14

IsWild(c) == c = ":" \/ c = "*"

\* the bytes of name at which a wildcard begins
WildStarts(name) == {k \in 0..(Len(name) - 1) : IsWild(At(name, k))}

\* the wildcard that begins at byte k of name is the anonymous one: the
\* name ends there with ".*"
AnonymousAt(name, k) ==
    At(name, k) = "*" /\ k = Len(name) - 1 /\ HasSuffix(name, <<".", "*">>)

\* the wildcard that begins at byte k of name is a named one (':ident' or
\* '*ident')
NamedAt(name, k) ==
    /\ k \in WildStarts(name)
    /\ segEnd(name, k + 1) - k >= 2
    /\ \A j \in (k + 1)..(segEnd(name, k + 1) - 1) : ~IsWild(At(name, j))

\* every wildcard of the name is a named one or the anonymous one
WellFormed(name) ==
    name # <<>> /\ \A k \in WildStarts(name) : NamedAt(name, k) \/ AnonymousAt(name, k)

\* the new name puts a static byte where the registered route has a named
\* wildcard, the two being the same up to there
StaticOverWildcard(new, old) ==
    LET i == commonPrefix(new, old, 0)
    IN i < Len(new) /\ i < Len(old) /\ NamedAt(old, i) /\ ~IsWild(At(new, i))

\* the new name puts a named wildcard where the registered route goes on with
\* a static byte, the two being the same up to there
WildcardOverStatic(new, old) ==
    LET i == commonPrefix(new, old, 0)
    IN i < Len(new) /\ i < Len(old) /\ NamedAt(new, i) /\ ~IsWild(At(old, i))

ConflictErrs == {"ChildConflict", "WildcardConflict"}

\* C14: in every tree built by successful registrations, addRoute of a name
\* that has a static byte at a position where a registered route has a named
\* wildcard, or a named wildcard at a position where a registered route has
\* a static byte, fails with a conflict error, whatever allowDup is.
C14_ChildConflict ==
    panicked = "" =>
       \A r \in WildInputs, allowDup \in BOOLEAN :
          (/\ WellFormed(r.name)
           /\ \E x \in regs : \/ StaticOverWildcard(r.name, x.name)
                              \/ WildcardOverStatic(r.name, x.name))
          => addRoute(nodes, r.name, allowDup, r.h).err \in ConflictErrs

\* ---- C15

\* the wildcard label that begins at byte k of name
WildcardAt(name, k) == Slice(name, k, segEnd(name, k + 1))

\* the new name and the registered route are the same up to a byte at which
\* both have a wildcard, and the two wildcards differ
DifferentWildcard(new, old) ==
    \E k \in WildStarts(new) \cap WildStarts(old) :
       /\ Slice(new, 0, k) = Slice(old, 0, k)
       /\ WildcardAt(new, k) # WildcardAt(old, k)

\* C15: in every tree built by successful registrations, addRoute of a name
\* that has a wildcard at a position where a registered route has a different
\* wildcard (named parameter, named catch-all or anonymous '*', in any
\* pairing) fails with WildcardConflict for both values of allowDup, and no
\* type table gains the new entry.
C15_WildcardConflict ==
    panicked = "" =>
       \A r \in WildInputs, allowDup \in BOOLEAN :
          (/\ WellFormed(r.name)
           /\ \E x \in regs : DifferentWildcard(r.name, x.name))
          => LET res == addRoute(nodes, r.name, allowDup, r.h)
             IN /\ res.err = "WildcardConflict"
                /\ Tables(res.nodes) = Tables(nodes)

\* ---- C16

\* C16: whatever string newIndexableName is given (empty, the root, with or
\* without a trailing dot, in any letter case), its result begins with '.',
\* and converting the result again gives the same name.
C16_CanonicaliseIdempotent ==
    v # NoValue =>
       /\ v.name # <<>>
       /\ Head(v.name) = "."
       /\ v.name = v.first
       /\ newIndexableName(v.name) = v.name

\* C16 witness: a name in presentation form, of two labels with a capital
\* letter and no trailing dot, has been converted twice
C16_Witness ==
    /\ v # NoValue
    /\ v.query = <<"a", ".", "B">>
    /\ v.times = 2
    /\ v.name = <<".", "b", ".", "a">>

\* ---- C17

\* two names have been compared
Compared == v # NoValue

\* C17: canonicalOrderLess is a strict total order on indexable names with
\* static, ':' and '*' labels: no name is less than itself, of two distinct
\* names exactly one is less than the other, and a name less than a second
\* that is less than a third is less than the third.
C17_StrictTotalOrder ==
    Compared =>
       /\ v.query = v.other => ~v.less
       /\ v.query # v.other => (v.less <=> ~v.greater)
       /\ \A z \in OrderNames :
             (v.less /\ canonicalOrderLess(v.other, z))
                => canonicalOrderLess(v.query, z)

\* ---- C18

\* a name of static labels only
IsStaticName(s) == WildStarts(s) = {}

\* the order of RFC 4034, section 6.1, on the label lists of two names, most
\* significant label first: the first label that differs decides, as a byte
\* string, and a list that is a proper prefix of the other comes first
RECURSIVE RfcLess(_, _)
RfcLess(xs, ys) ==
    IF ys = <<>> THEN FALSE
    ELSE IF xs = <<>> THEN TRUE
    ELSE IF Head(xs) = Head(ys) THEN RfcLess(Tail(xs), Tail(ys))
    ELSE StrLess(Head(xs), Head(ys))

\* C18: on two names of static labels only, whatever bytes the labels hold,
\* canonicalOrderLess answers what the order of RFC 4034, section 6.1, says.
C18_Rfc4034Order ==
    (Compared /\ IsStaticName(v.query) /\ IsStaticName(v.other))
       => (v.less <=> RfcLess(Labels(v.query), Labels(v.other)))

\* ---- C19

\* no name of the order is less than one before it
IsSorted(l) == \A i, j \in 1..Len(l) : i < j => ~canonicalOrderLess(l[j], l[i])

\* the names handled with qtype t
HandledWith(t) == {r.name : r \in {x \in regs : x.h.Qtype = t}}

\* the order holds the names handled with qtype t, each exactly once
HoldsOnce(l, t) ==
    /\ {l[i] : i \in 1..Len(l)} = HandledWith(t)
    /\ \A nm \in HandledWith(t) : Occurs(l, nm) = 1

\* C19: after any sequence of handle calls that did not panic, the NSEC
\* order and the NSEC3 order are sorted under canonicalOrderLess and hold
\* every name handled with their qtype exactly once, however often the name
\* was handled.
C19_IndexSortedOnce ==
    panicked = "" =>
       /\ IsSorted(nsecNames) /\ HoldsOnce(nsecNames, TypeNSEC)
       /\ IsSorted(nsec3Names) /\ HoldsOnce(nsec3Names, TypeNSEC3)

\* ---- C20

\* Previous has been asked of a sorted order
AskedSorted == v # NoValue /\ IsSorted(v.order)

\* the names of an order
Elements(l) == {l[i] : i \in 1..Len(l)}

\* the names of the order that are less than name
Smaller(l, name) == {e \in Elements(l) : canonicalOrderLess(e, name)}

\* C20: Previous on a sorted order says found exactly when the name is in the
\* order, and returns the greatest name of the order that is less than the
\* name asked for, the last name of the order when none is less; on the
\* empty order it returns the empty name and found = false.
C20_PreviousIsPredecessor ==
    AskedSorted =>
       IF v.order = <<>>
       THEN v.name = <<>> /\ ~v.found
       ELSE /\ v.found <=> v.query \in Elements(v.order)
            /\ IF Smaller(v.order, v.query) = {}
               THEN v.name = v.order[Len(v.order)]
               ELSE /\ v.name \in Smaller(v.order, v.query)
                    /\ \A e \in Smaller(v.order, v.query) :
                          ~canonicalOrderLess(v.name, e)

\* ---- C21

\* the full name of node n: the names of the path from the root to n
RECURSIVE FullName(_, _)
FullName(T, n) == IF n = Nil THEN <<>> ELSE FullName(T, T[n].parent) \o T[n].name

\* the caller holds a Value and what previous returned for it
HasPrevious == v # NoValue /\ v.panic = "" /\ "previous" \in DOMAIN v

\* the names registered
RegNames == {r.name : r \in regs}

\* x comes before y in canonical order
NameLess(x, y) == RfcLess(Labels(x), Labels(y))

\* the greatest name of a non-empty set S
Greatest(S) == CHOOSE x \in S : \A y \in S \ {x} : NameLess(y, x)

\* the registered name before q, around the ring
Predecessor(q) ==
    LET S == {x \in RegNames : NameLess(x, q)}
    IN IF S # {} THEN Greatest(S) ELSE Greatest(RegNames)

\* C21: in a tree with no zone nodes and one name at least, previous() on
\* the Value of any query q, registered or not, returns the node of the
\* greatest registered name that is smaller than q in canonical order, or of
\* the greatest registered name when none is smaller; that node carries data.
C21_PreviousWithoutZones ==
    (HasPrevious /\ regs # {} /\ \A n \in 1..Len(nodes) : ~isZone(nodes, n))
       => /\ v.previous # Nil
          /\ nodes[v.previous].data.has
          /\ FullName(nodes, v.previous) = Predecessor(v.query)

\* ---- C22

\* name x is name y or lies below it
AtOrBelow(x, y) == x = y \/ HasPrefix(x, Append(y, "."))

\* the names registered as zones: the ones with NS or SOA
ZoneApexes == {r.name : r \in {z \in regs : z.h.Qtype \in {TypeNS, TypeSOA}}}

\* the zones that enclose name q
Enclosing(q) == {z \in ZoneApexes : AtOrBelow(q, z)}

\* the innermost of a non-empty set of zones that enclose one name
Innermost(Z) == CHOOSE z \in Z : \A y \in Z : Len(y) <= Len(z)

\* the names of zone z: its apex and the registered names below it that are
\* not inside a deeper zone
ZoneMembers(z) ==
    {z} \cup {x \in RegNames : AtOrBelow(x, z) /\ Innermost(Enclosing(x)) = z}

\* what previous is to return for q inside zone z
ZonePredecessor(q, z) ==
    LET M == ZoneMembers(z)
        S == {x \in M : NameLess(x, q)}
    IN IF q = z
       THEN (IF M = {z} THEN z ELSE Greatest(M \ {z}))
       ELSE Greatest(S)

\* C22: for a query inside a zone, previous() returns the node of a name of
\* the innermost zone that encloses the query: the greatest such name that
\* is smaller than the query and, for the apex itself, the greatest name of
\* the zone, or the apex when the zone has no other name.
C22_PreviousStaysInZone ==
    (HasPrevious /\ Enclosing(v.query) # {})
       => /\ v.previous # Nil
          /\ FullName(nodes, v.previous)
                = ZonePredecessor(v.query, Innermost(Enclosing(v.query)))

\* ---- C23

\* the entries of table l whose Qtype is t, in the table's order
RECURSIVE EntriesOf(_, _)
EntriesOf(l, t) ==
    IF l = <<>> THEN <<>>
    ELSE (IF Head(l).Qtype = t THEN <<Head(l)>> ELSE <<>>) \o EntriesOf(Tail(l), t)

\* the caller asked the Class that Lookup returned, matched on a node, for
\* a qtype
AskedNode == HasClass /\ v.asked # 0 /\ v.visited = <<>> /\ v.class.node # Nil

\* C23: Search on a DNAME-flagged node reached with cut = true returns the
\* DNAME handlers for every other query type; otherwise, on a node with
\* CNAME entries, it returns the CNAME handlers for every query type except
\* CNAME, NSEC and RRSIG.
C23_DnameAndCnameShadow ==
    AskedNode =>
       LET d == nodes[v.class.node].data
       IN IF IsDnameData(d) /\ v.class.cut
          THEN v.asked # TypeDNAME
                  => /\ v.answer.kind = "handlers"
                     /\ v.answer.h = EntriesOf(d.handler, TypeDNAME)
          ELSE (EntriesOf(d.handler, TypeCNAME) # <<>>
                  /\ v.asked \notin {TypeCNAME, TypeNSEC, TypeRRSIG})
                  => /\ v.answer.kind = "handlers"
                     /\ v.answer.h = EntriesOf(d.handler, TypeCNAME)

\* ---- C24

\* the caller asked the Class that Lookup returned for a qtype, and the
\* lookup had matched no node
AskedNoNode == HasClass /\ v.asked # 0 /\ v.visited = <<>> /\ v.class.node = Nil

\* C24: Search answers with the name-error handler only when the lookup
\* matched no node and cut is false; when no node matched and cut is true
\* it answers NOERROR with no data, with or without a zone milestone.
C24_NameErrorOnlyWithoutCut ==
    /\ (HasClass /\ v.asked # 0 /\ v.visited = <<>> /\ v.answer = NameErrorHandler)
          => (v.class.node = Nil /\ ~v.class.cut)
    /\ (AskedNoNode /\ v.class.cut) => v.answer = NoErrorHandler

\* ---- C25

\* node a lies on the path from the root to node n, above n
IsAbove(T, a, n) ==
    LET path == PathTo(T, n)
    IN \E k \in 1..(Len(path) - 1) : path[k] = a

\* C25: each call of Zone on the Class of a lookup, and on the classes it
\* returned, gives the innermost milestone left with delegated = true
\* exactly when the zone node has NS and no SOA; the calls visit the
\* milestones from the innermost to the outermost, each zone once, and
\* give nil after the outermost.
C25_ZoneWalksOutwards ==
    HasClass =>
       /\ \A i \in 1..Len(v.visited) :
             /\ v.visited[i] = v.value.zones[Len(v.value.zones) + 1 - i].node
             /\ v.delegated[i] <=>
                   ("ns" \in nodes[v.visited[i]].data.rrType
                      /\ "soa" \notin nodes[v.visited[i]].data.rrType)
       /\ \A i, j \in 1..Len(v.visited) :
             i < j => /\ v.visited[i] # v.visited[j]
                      /\ IsAbove(nodes, v.visited[j], v.visited[i])
       /\ v.ended => Len(v.visited) = Len(v.value.zones)

\* ---- C26

\* the caller holds the answer of a search in a type table
Searched == v # NoValue /\ v.panic = "" /\ "found" \in DOMAIN v

\* C26: for every type table that appends have produced, Search(q) returns
\* exactly the entries whose qtype is q, all of them and no others, as one
\* contiguous run of the table, and nothing when the table has none.
C26_SearchByQtype ==
    Searched =>
       /\ v.found = EntriesOf(v.table, v.qtype)
       /\ \E i \in 0..Len(v.table) :
             v.found = SubSeq(v.table, i + 1, i + Len(v.found))

\* a table of five entries with two equal ones, a run of two in the middle
\* found
C26_Witness ==
    /\ Searched
    /\ Len(v.table) = 5
    /\ Len(v.found) = 2
    /\ v.qtype = TypeNS
    /\ v.table[1].Qtype = TypeA
    /\ v.table[5].Qtype = TypeRRSIG

\* ---- C27

\* the sum of the priorities of the children of n from slot k on
RECURSIVE SumPrio(_, _, _)
SumPrio(T, n, k) ==
    IF k > Len(T[n].children) THEN 0
    ELSE T[T[n].children[k]].priority + SumPrio(T, n, k + 1)

\* C27: after any sequence of successful addRoute calls, with allowDup true
\* or false, the priority of every node is 1 if the node has data, else 0,
\* plus the sum of the priorities of its children.
C27_PrioritySum ==
    panicked = "" =>
       \A n \in 1..Len(nodes) :
          nodes[n].priority = (IF nodes[n].data.has THEN 1 ELSE 0) + SumPrio(nodes, n, 1)

\* ---- C28

\* the maxParams that checkMaxParams computes for node n from its children
ExpectedMaxParams(T, n) ==
    MaxOf({0} \cup {T[T[n].children[k]].maxParams : k \in 1..Len(T[n].children)})
       + (IF T[n].nType \in {"param", "catchAll", "anonymousCatchAll"}
             /\ T[n].wildChild = "none"
          THEN 1 ELSE 0)

\* C28: after any sequence of successful registrations, a first one with
\* parameters included, every node, the root included, has maxParams = the
\* greatest maxParams of its children, plus 1 when the node is a parameter,
\* catch-all or anonymous wildcard node without a wildcard child.
C28_MaxParams ==
    panicked = "" =>
       \A n \in 1..Len(nodes) : nodes[n].maxParams = ExpectedMaxParams(nodes, n)

\* ---- C29

\* C29: after any sequence of successful registrations, every node of every
\* type has as many indices as children, less one when it has a wildcard
\* child.
C29_IndicesMatchChildren ==
    panicked = "" =>
       \A n \in 1..Len(nodes) :
          Len(nodes[n].indices)
             = Len(nodes[n].children) - (IF nodes[n].wildChild # "none" THEN 1 ELSE 0)

\* ---- C30

\* the number of children of n that are not its wildcard child
StaticCount(T, n) ==
    Len(T[n].children) - (IF T[n].wildChild # "none" THEN 1 ELSE 0)

\* the i-th (from 0) static child of n
StaticChild(T, n, i) == T[n].children[slotOf(T, n, i)]

\* the static children of n are in non-increasing priority order
PriorityOrdered(T, n) ==
    \A i \in 0..(StaticCount(T, n) - 2) :
       T[StaticChild(T, n, i)].priority >= T[StaticChild(T, n, i + 1)].priority

\* indices[i] is the first byte of the name of the i-th static child
IndicesOrdered(T, n) ==
    \A i \in 0..(min(Len(T[n].indices), StaticCount(T, n)) - 1) :
       /\ Len(T[StaticChild(T, n, i)].name) > 0
       /\ At(T[n].indices, i) = At(T[StaticChild(T, n, i)].name, 0)

\* C30: after any sequence of successful registrations the static children
\* of every node, also of a node that has a wildcard child in slot 0, are in
\* non-increasing priority order, and indices[i] is the first byte of the
\* name of the i-th static child.
C30_ChildrenByPriority ==
    panicked = "" =>
       \A n \in 1..Len(nodes) : PriorityOrdered(nodes, n) /\ IndicesOrdered(nodes, n)

====
